---- MODULE Spec2Model ----
(***************************************************************************)
(* A model of bot.py (EasyReaderBot): the catalog navigation handlers, the *)
(* search session flag, the chapter reader with its Telegra.ph fallback    *)
(* and the subscriber toggle.                                              *)
(*                                                                         *)
(* Strings are tuples of one-character strings, so that sorting, natural   *)
(* sorting and slicing are computed as Python computes them.  A JSON       *)
(* object (a Python dict, which keeps the document's key order) is a       *)
(* sequence of records [k |-> key, v |-> value] with distinct keys.        *)
(***************************************************************************)
EXTENDS Integers, Sequences, FiniteSets, TLC

\* ------------------------------------------------------------ bounds

\* Number of chat users.
MaxUsers == 2
\* Number of times restructure_links.py is run.
MaxRuns == 3
\* Number of handler tasks that may run toggle_notify_handler at once.
MaxTasks == 2
\* Read/page tokens carry a page in -MaxNeg .. MaxPage (and list boundaries).
MaxNeg == 2
MaxPage == 3
\* Toggle calls started in one busy period of the subscriber file.
MaxCalls == 3
\* Length of the lists of keys sorted on their own.
MaxSortLen == 3
\* The longest text, in characters, the transport takes in one message
\* (scaled down to the sample URIs, which are two characters long).
MaxText == 3

\* ------------------------------------------------- program constants

\* get_comics_markup: ITEMS_PER_PAGE = 10
ITEMS_PER_PAGE_comics == 10
\* get_chapter_buttons_markup: ITEMS_PER_PAGE = 20
ITEMS_PER_PAGE_chapters == 20

\* ------------------------------------------------------------ strings

\* The sequence f as a tuple whose elements are computed once.
List(f) == f \o <<>>

Min(a, b) == IF a < b THEN a ELSE b
Max(a, b) == IF a < b THEN b ELSE a

DigitChars == <<"0", "1", "2", "3", "4", "5", "6", "7", "8", "9">>

\* str.isdigit() / the regex class \d, on the model's ASCII alphabet.
IsDigit(ch) == \E d \in 1..10 : DigitChars[d] = ch

\* int() of one decimal digit.
DigitVal(ch) == (CHOOSE d \in 1..10 : DigitChars[d] = ch) - 1

\* The code point of a character: Python compares str by code points.
Ord(ch) ==
    CASE ch = " " -> 32
      [] IsDigit(ch) -> 48 + DigitVal(ch)
      [] ch = ":" -> 58
      [] ch = "A" -> 65 [] ch = "B" -> 66 [] ch = "C" -> 67
      [] ch = "K" -> 75 [] ch = "M" -> 77 [] ch = "S" -> 83
      [] ch = "_" -> 95
      [] ch = "a" -> 97 [] ch = "b" -> 98 [] ch = "c" -> 99
      [] ch = "d" -> 100 [] ch = "e" -> 101 [] ch = "h" -> 104
      [] ch = "k" -> 107 [] ch = "l" -> 108 [] ch = "m" -> 109
      [] ch = "n" -> 110 [] ch = "o" -> 111 [] ch = "p" -> 112
      [] ch = "r" -> 114 [] ch = "s" -> 115 [] ch = "t" -> 116
      [] ch = "x" -> 120

\* str.lower() of one character.
LowerChar(ch) ==
    CASE ch = "A" -> "a" [] ch = "B" -> "b" [] ch = "C" -> "c"
      [] ch = "K" -> "k" [] ch = "M" -> "m" [] ch = "S" -> "s"
      [] ch = "D" -> "d" [] ch = "N" -> "n" [] ch = "X" -> "x"
      [] ch = "G" -> "g"
      [] OTHER -> ch

\* str.upper() of one character.
UpperChar(ch) ==
    CASE ch = "a" -> "A" [] ch = "b" -> "B" [] ch = "c" -> "C"
      [] ch = "k" -> "K" [] ch = "m" -> "M" [] ch = "s" -> "S"
      [] ch = "d" -> "D" [] ch = "n" -> "N" [] ch = "x" -> "X"
      [] OTHER -> ch

\* str.lower()
Lower(s) == List([j \in 1..Len(s) |-> LowerChar(s[j])])

\* str.capitalize()
Capitalize(s) ==
    IF s = <<>> THEN s ELSE <<UpperChar(Head(s))>> \o Lower(Tail(s))

\* sub in s
Contains(sub, s) ==
    \E j \in 0..(Len(s) - Len(sub)) : SubSeq(s, j + 1, j + Len(sub)) = sub

\* re.search(r'\d+', s): the first run of digits, as an option.
RECURSIVE FirstDigitRun(_)
FirstDigitRun(s) ==
    IF s = <<>> THEN <<>>
    ELSE IF IsDigit(Head(s))
         THEN << SubSeq(s, 1, 1 + (CHOOSE m \in 0..Len(s) :
                    /\ \A j \in 2..(1 + m) : IsDigit(s[j])
                    /\ (1 + m = Len(s) \/ ~IsDigit(s[2 + m])))) >>
         ELSE FirstDigitRun(Tail(s))

\* s < t for Python str: the first differing code point decides, a proper
\* prefix is smaller.
RECURSIVE StrLess(_, _)
StrLess(s, t) ==
    IF t = <<>> THEN FALSE
    ELSE IF s = <<>> THEN TRUE
    ELSE IF Head(s) = Head(t) THEN StrLess(Tail(s), Tail(t))
    ELSE Ord(Head(s)) < Ord(Head(t))

\* int() of a run of decimal digits.
RECURSIVE IntOf(_)
IntOf(s) ==
    IF s = <<>> THEN 0
    ELSE 10 * IntOf(SubSeq(s, 1, Len(s) - 1)) + DigitVal(s[Len(s)])

\* Length of the longest prefix of s whose characters are (are not) digits.
RECURSIVE RunLen(_, _)
RunLen(s, digits) ==
    IF s = <<>> \/ IsDigit(Head(s)) # digits THEN 0
    ELSE 1 + RunLen(Tail(s), digits)

\* natural_sort_key: re.split(r"(\d+)", s) gives text, digits, text, ...,
\* always starting and ending with a (possibly empty) text run; digit runs
\* become int, text runs are lower-cased.
RECURSIVE natural_sort_key(_)
natural_sort_key(s) ==
    LET t == RunLen(s, FALSE)
        rest == SubSeq(s, t + 1, Len(s))
        d == RunLen(rest, TRUE)
    IN  IF rest = <<>> THEN << Lower(SubSeq(s, 1, t)) >>
        ELSE << Lower(SubSeq(s, 1, t)), IntOf(SubSeq(rest, 1, d)) >>
             \o natural_sort_key(SubSeq(rest, d + 1, Len(rest)))

\* a < b for two natural sort keys (Python list comparison): odd positions
\* hold text, even positions hold integers.
RECURSIVE KeyLessFrom(_, _, _)
KeyLessFrom(a, b, j) ==
    IF j > Len(b) THEN FALSE
    ELSE IF j > Len(a) THEN TRUE
    ELSE IF a[j] = b[j] THEN KeyLessFrom(a, b, j + 1)
    ELSE IF j % 2 = 1 THEN StrLess(a[j], b[j]) ELSE a[j] < b[j]

\* ------------------------------------------------------ dicts and lists

\* key in d
Has(d, key) == \E j \in 1..Len(d) : d[j].k = key

\* d.get(key, default)
Get(d, key, default) ==
    IF Has(d, key) THEN d[CHOOSE j \in 1..Len(d) : d[j].k = key].v ELSE default

\* list(d.keys()): the keys in the document's order.
Keys(d) == List([j \in 1..Len(d) |-> d[j].k])

\* set(d.keys())
KeySet(d) == {d[j].k : j \in 1..Len(d)}

\* x in lst
In(x, lst) == \E j \in 1..Len(lst) : lst[j] = x

\* The slice taking one element beyond its end.
Slice_Inclusive(lst, start, end) ==
    LET n == Len(lst)
        s == IF start < 0 THEN Max(n + start, 0) ELSE Min(start, n)
        e == IF end < 0 THEN Max(n + end, 0) ELSE Min(end + 1, n)
    IN  IF s < e THEN SubSeq(lst, s + 1, e) ELSE <<>>

\* lst[start:end] with Python's clamping and negative indices.
Slice(lst, start, end) ==
    LET n == Len(lst)
        s == IF start < 0 THEN Max(n + start, 0) ELSE Min(start, n)
        e == IF end < 0 THEN Max(n + end, 0) ELSE Min(end, n)
    IN  IF s < e THEN SubSeq(lst, s + 1, e) ELSE <<>>

\* math.ceil(n / size)
CeilDiv(n, size) == (n + size - 1) \div size

\* sorted(lst, key=...): less[i][j] tells whether the sort key of lst[i] is
\* below that of lst[j]. The sort is stable, so elements with equal sort keys
\* stay in the order they had (for dict keys: the order the document stores
\* them).
StableSort(lst, less) ==
    LET n == Len(lst)
        \* the place of lst[j]: after every smaller element and after the
        \* equal elements that precede it
        rank == List([j \in 1..n |->
                    1 + Cardinality({i \in 1..n :
                            \/ less[i][j]
                            \/ (~less[j][i] /\ i < j)})])
    IN  List([r \in 1..n |-> lst[CHOOSE j \in 1..n : rank[j] = r]])

\* a < b for two natural sort keys.
NaturalLess(a, b) == KeyLessFrom(a, b, 1)

\* sorted(keys) without the key function: the strings themselves compared.
SortedNatural_Plain(keys) ==
    LET n == Len(keys)
    IN  StableSort(keys, List([i \in 1..n |->
                             List([j \in 1..n |-> StrLess(keys[i], keys[j])])]))

\* sorted(keys, key=natural_sort_key): each key is computed once.
SortedNatural(keys) ==
    LET n == Len(keys)
        sort_keys == List([j \in 1..n |-> natural_sort_key(keys[j])])
    IN  StableSort(keys, List([i \in 1..n |->
                             List([j \in 1..n |-> NaturalLess(sort_keys[i], sort_keys[j])])]))

\* sorted(lst, key=...) when the sort keys are the strings titles[j].
SortedByString(lst, titles) ==
    LET n == Len(lst)
    IN  StableSort(lst, List([i \in 1..n |->
                            List([j \in 1..n |-> StrLess(titles[i], titles[j])])]))

\* ------------------------------------------------------------- files

\* A file on disk: missing, unparsable ("corrupt") or a JSON value. For
\* users.json the value is the list itself; data.json and links.json hold
\* the number of one of the sample documents below.
JsonFile(val) == [val |-> val, kind |-> "json"]
MissingFile == [val |-> <<>>, kind |-> "missing"]
CorruptFile == [val |-> <<>>, kind |-> "corrupt"]
\* data.json or links.json missing.
MissingDoc == [val |-> 0, kind |-> "missing"]
\* users.json holding a JSON value that is no list (an object).
ObjectFile == [val |-> <<>>, kind |-> "object"]

\* load_json_async: None (here the empty option <<>>) for a missing or
\* corrupt file, else the parsed value (here the option <<value>>).
load_json_async(file) ==
    IF file.kind \in {"missing", "corrupt"} THEN <<>> ELSE <<file.val>>

\* `loaded or {}` / `loaded or []`
OrEmpty(loaded) == IF loaded = <<>> THEN <<>> ELSE loaded[1]

KV(key, val) == [k |-> key, v |-> val]

\* ---------------------------------------------------- sample documents

c1 == <<"c", "1">>
c2 == <<"c", "2">>
c10 == <<"c", "1", "0">>
c01 == <<"c", "0", "1">>
Cap1 == <<"C", "1">>

\* Decimal numeral of n (0 <= n <= 99) as a string.
Dec(n) ==
    IF n < 10 THEN <<DigitChars[n + 1]>>
    ELSE <<DigitChars[(n \div 10) + 1], DigitChars[(n % 10) + 1]>>

\* The comic key of the tokens that address a collection's comic list.
placeholder == <<"p", "l", "a", "c", "e", "h", "o", "l", "d", "e", "r">>

\* A chapters object {chapterKey: label} storing the keys in this order.
\* The label of a key c<N> is "glava <N>" (standing for the source's Cyrillic
\* word), of any other key "x<key>".
ChapterLabel(key) ==
    IF Head(key) = "c" THEN <<"G", "l", "a", "v", "a", " ">> \o Tail(key)
    ELSE <<"x">> \o key

ChaptersObj(keys) ==
    List([j \in 1..Len(keys) |-> KV(keys[j], ChapterLabel(keys[j]))])

\* Storage orders of the chapter keys: every order of {c1, c2, c10}, and
\* both orders of two pairs of keys that differ only by a leading zero or
\* by case.
ChapterOrders ==
    << <<c1, c2, c10>>, <<c1, c10, c2>>, <<c2, c1, c10>>,
       <<c2, c10, c1>>, <<c10, c1, c2>>, <<c10, c2, c1>>,
       <<c1, c01>>, <<c01, c1>>, <<c1, Cap1>>, <<Cap1, c1>> >>

\* Two collections with unequal numbers of comics and an empty one; the
\* comic m/b stores its chapters in the given order.
SmallDoc(chapterKeys) ==
    << KV(<<"m">>,
          << KV("title", <<"M">>), KV("icon", "icon_m"),
             KV("comics",
                << KV(<<"b">>, << KV("title", <<"S", "a">>),
                                  KV("chapters", ChaptersObj(chapterKeys)) >>),
                   KV(<<"a">>, << KV("chapters", <<>>) >>) >>) >>),
       KV(<<"d">>,
          << KV("comics",
                << KV(<<"k">>, << KV("title", <<"a", "M">>) >>) >>) >>),
       KV(<<"x">>, << KV("title", <<"K">>) >>) >>

\* One collection of 11 comics (two item pages); its first comic has 21
\* chapters (two chapter pages), and so has its second, whose key is the
\* word the tokens use as a marker.
BigDoc ==
    << KV(<<"m">>,
          << KV("title", <<"M">>),
             KV("comics",
                List([j \in 1..(ITEMS_PER_PAGE_comics + 1) |->
                    KV(IF j = 2 THEN placeholder ELSE <<"k">> \o Dec(j),
                       IF j <= 2
                       THEN << KV("chapters",
                                  ChaptersObj([n \in 1..(ITEMS_PER_PAGE_chapters + 1)
                                                  |-> <<"c">> \o Dec(n)])) >>
                       ELSE <<>>)])) >>) >>

\* One collection whose only comic has 21 chapters (two chapter pages) and
\* the word the tokens use as a marker for its key.
LoneDoc ==
    << KV(<<"m">>,
          << KV("comics",
                << KV(placeholder,
                      << KV("chapters",
                            ChaptersObj([n \in 1..(ITEMS_PER_PAGE_chapters + 1)
                                            |-> <<"c">> \o Dec(n)])) >>) >>) >>) >>

\* The sample documents of data.json, by number.
DataDocs ==
    [j \in 1..Len(ChapterOrders) |-> SmallDoc(ChapterOrders[j])] \o << LoneDoc, BigDoc >>

\* links.json: collection -> comic -> chapter -> list of page URIs. For
\* m/b: c1 has two pages, c2 an empty list, c01 one page, c10 no entry.
LinksDocs ==
  <<
    << KV(<<"m">>,
          << KV(<<"b">>,
                << KV(c1, <<"u1", "u2">>), KV(c2, <<>>), KV(c01, <<"u3">>),
                   KV(Cap1, <<"u2", "u1">>) >>),
             KV(<<"k", "1">>, << KV(<<"c", "2", "1">>, <<"u1">>) >>) >>) >>
  >>

CollectionKeys == {<<"m">>, <<"d">>, <<"x">>, <<"n">>}
ComicKeys == {<<"a">>, <<"b">>, <<"k">>, <<"k", "1">>, <<"n">>, placeholder}

Users == 1..MaxUsers
Tasks == 1..MaxTasks

\* -------------------------------------------------------------- state

VARIABLES
    data_json,   \* the file data.json
    links_json,  \* the file links.json
    users_json,  \* the file users.json
    env,         \* TELEGRAPH_ENABLED, TELEGRAPH_AVAILABLE, and whether create_account succeeds
    fsm,         \* per user: the FSM state kept by the dispatcher
    tasks,       \* per handler task running toggle_notify_handler: its position and locals
    update,      \* the update the dispatcher has taken and not yet handled
    out,         \* what the handler of the last update did: alerts, edits, messages, publisher calls
    hist,        \* history of the toggle calls since users.json was last quiescent
    daily,       \* the scheduler's job send_daily_update: its position, locals and sends
    script,      \* restructure_links.py: links.json and links_backup.json as it reads and writes them
    calc         \* a helper function called on its own: its arguments and what it returned

vars == <<data_json, links_json, users_json, env, fsm, tasks, update, out, hist, daily, script, calc>>

\* main: dp.workflow_data["telegraph"] is an instance only when Telegraph is
\* enabled, importable and create_account succeeded.
telegraph ==
    env.TELEGRAPH_ENABLED /\ env.TELEGRAPH_AVAILABLE /\ env.create_account_ok

\* ---------------------------------------------------------- accessors

\* json.loads of the text of data.json / links.json number doc.
ParsedData(loaded) == IF loaded = <<>> THEN <<>> ELSE << DataDocs[loaded[1]] >>
ParsedLinks(loaded) == IF loaded = <<>> THEN <<>> ELSE << LinksDocs[loaded[1]] >>

get_all_data == OrEmpty(ParsedData(load_json_async(data_json)))

get_comics_data(collection_key) ==
    Get(Get(get_all_data, collection_key, <<>>), "comics", <<>>)

get_chapters_data(collection_key, comic_key) ==
    Get(Get(get_comics_data(collection_key), comic_key, <<>>), "chapters", <<>>)

get_links_list(collection_key, comic_key, chapter_key) ==
    Get(Get(Get(OrEmpty(ParsedLinks(load_json_async(links_json))), collection_key, <<>>),
            comic_key, <<>>),
        chapter_key, <<>>)

\* ------------------------------------------------------------- tokens

MenuCallback(action) == [action |-> action, prefix |-> "menu"]

CollectionCallback(collection_key, action) ==
    [collection_key |-> collection_key, action |-> action, prefix |-> "coll"]

ComicCallback(collection_key, comic_key, action, page) ==
    [collection_key |-> collection_key, comic_key |-> comic_key,
     action |-> action, prefix |-> "comic", page |-> page]

\* CallbackData: the separator of the packed fields and the longest packed
\* string, in bytes, that pack() lets through.
sep == ":"
MAX_CALLBACK_LENGTH == 64

\* str(page) as characters.
StrOfInt(n) == IF n < 0 THEN <<"-">> \o Dec(-n) ELSE Dec(n)

\* int(text) as an option: empty unless text is decimal digits after an
\* optional minus sign.
IntOfStr(text) ==
    LET digits == IF text # <<>> /\ Head(text) = "-" THEN Tail(text) ELSE text
    IN  IF digits = <<>> \/ \E j \in 1..Len(digits) : ~IsDigit(digits[j]) THEN <<>>
        ELSE IF digits = text THEN << IntOf(digits) >> ELSE << 0 - IntOf(digits) >>

\* The field values of a token in declaration order, each as the pieces of
\* its text: a key character by character, an action or a prefix as one
\* piece.
FieldValues(token) ==
    CASE token.prefix = "menu" -> << <<token.action>> >>
      [] token.prefix = "coll" -> << token.collection_key, <<token.action>> >>
      [] token.prefix = "comic" ->
            << token.collection_key, token.comic_key, <<token.action>>,
               StrOfInt(token.page) >>

\* sep.join(parts), after the first part.
RECURSIVE JoinSep(_)
JoinSep(values) ==
    IF values = <<>> THEN <<>>
    ELSE << sep >> \o Head(values) \o JoinSep(Tail(values))

\* len(text.encode()) of a text of ASCII pieces.
RECURSIVE Bytes(_)
Bytes(pieces) ==
    IF pieces = <<>> THEN 0
    ELSE IF Len(pieces) = 1 THEN Len(pieces[1])
    ELSE Bytes(SubSeq(pieces, 1, Len(pieces) \div 2))
         + Bytes(SubSeq(pieces, (Len(pieces) \div 2) + 1, Len(pieces)))

\* CallbackData.pack() as an option: the prefix and the field values joined
\* by the separator; ValueError (the empty option) when a value contains the
\* separator or the result is longer than MAX_CALLBACK_LENGTH bytes.
pack(token) ==
    LET values == FieldValues(token)
        callback_data == << token.prefix >> \o JoinSep(values)
    IN  IF \E j \in 1..Len(values) : \E i \in 1..Len(values[j]) : values[j][i] = sep
        THEN <<>>
        ELSE IF Bytes(callback_data) > MAX_CALLBACK_LENGTH THEN <<>>
        ELSE << callback_data >>

\* text.split(sep)
RECURSIVE Split(_)
Split(text) ==
    IF \A j \in 1..Len(text) : text[j] # sep THEN << text >>
    ELSE LET j == CHOOSE j \in 1..Len(text) :
                     text[j] = sep /\ \A i \in 1..(j - 1) : text[i] # sep
         IN  << SubSeq(text, 1, j - 1) >> \o Split(SubSeq(text, j + 1, Len(text)))

\* The pieces of a value as one string.
RECURSIVE WordOf(_)
WordOf(pieces) == IF pieces = <<>> THEN "" ELSE Head(pieces) \o WordOf(Tail(pieces))

\* CallbackData.unpack() of the class with this prefix, as an option: empty
\* (ValueError) for another prefix, for a wrong number of fields and for a
\* page that is no integer.
unpack(prefix, callback_data) ==
    LET parts == Split(callback_data)
        fields == CASE prefix = "menu" -> 1 [] prefix = "coll" -> 2 [] prefix = "comic" -> 4
    IN  IF parts[1] # << prefix >> \/ Len(parts) # 1 + fields THEN <<>>
        ELSE CASE prefix = "menu" -> << MenuCallback(WordOf(parts[2])) >>
               [] prefix = "coll" -> << CollectionCallback(parts[2], WordOf(parts[3])) >>
               [] prefix = "comic" ->
                     IF IntOfStr(parts[5]) = <<>> THEN <<>>
                     ELSE << ComicCallback(parts[2], parts[3], WordOf(parts[4]),
                                           IntOfStr(parts[5])[1]) >>

Button(text, callback_data) == [text |-> text, callback_data |-> callback_data]

\* A message as the user sees it: a text (its kind), the page URIs it lists
\* in order, and its inline keyboard.
Message(text, links, markup) == [text |-> text, links |-> links, markup |-> markup]

\* ------------------------------------------------------------ keyboards

\* The word looked for in a chapter label ("glava" stands for the Cyrillic).
glava == <<"g", "l", "a", "v", "a">>
\* Default titles.
Komiks == <<"K", "o", "m", "i", "k", "s">>
Kollekciya == <<"K", "o", "l", "l">>

\* get_main_menu_markup when users.json is users_file.
MainMenuMarkup(users_file, user_id) ==
    LET is_subscribed == In(user_id, OrEmpty(load_json_async(users_file)))
    IN  << Button(<<"search">>, MenuCallback("search")),
           Button(<<"random">>, MenuCallback("random")),
           Button(<<"collections">>, MenuCallback("collections")),
           Button(<<"notify", is_subscribed>>, MenuCallback("toggle_notify")) >>

get_main_menu_markup(user_id) == MainMenuMarkup(users_json, user_id)

\* The collections keyboard made to depend on a search session being open.
get_collections_markup_InSearch ==
    IF \E u \in Users : fsm[u] = "waiting_for_query"
    THEN << Button(<<"to_main_menu">>, MenuCallback("back")) >>
    ELSE LET data == get_all_data
         IN  [j \in 1..Len(data) |->
                 Button(<<"collection", Get(data[j].v, "icon", "icon_default"),
                          Get(data[j].v, "title", Capitalize(data[j].k))>>,
                        CollectionCallback(data[j].k, "open"))]
             \o << Button(<<"to_main_menu">>, MenuCallback("back")) >>

get_collections_markup ==
    LET data == get_all_data
    IN  [j \in 1..Len(data) |->
            Button(<<"collection", Get(data[j].v, "icon", "icon_default"),
                     Get(data[j].v, "title", Capitalize(data[j].k))>>,
                   CollectionCallback(data[j].k, "open"))]
        \o << Button(<<"to_main_menu">>, MenuCallback("back")) >>

\* The « N/M » row of a paginated keyboard; key is the comic key its
\* tokens carry.
NavButtons(collection_key, key, page, total_pages) ==
    IF total_pages > 1
    THEN (IF page > 1
          THEN << Button(<<"prev">>, ComicCallback(collection_key, key, "page", page - 1)) >>
          ELSE <<>>)
         \o << Button(<<"page", page, total_pages>>, "ignore") >>
         \o (IF page < total_pages
             THEN << Button(<<"next">>, ComicCallback(collection_key, key, "page", page + 1)) >>
             ELSE <<>>)
    ELSE <<>>

\* The comic keys of a collection ordered by title (the key when the title
\* is missing).
SortedComicKeys(comics_data) ==
    LET keys == Keys(comics_data)
    IN  SortedByString(keys, List([j \in 1..Len(keys) |->
                                     Get(Get(comics_data, keys[j], <<>>), "title", keys[j])]))

get_comics_markup(collection_key, page) ==
    LET comics_data == get_comics_data(collection_key)
        back == Button(<<"back_to_collections">>,
                       CollectionCallback(collection_key, "back"))
        comic_keys == SortedComicKeys(comics_data)
        start_index == (page - 1) * ITEMS_PER_PAGE_comics
        end_index == start_index + ITEMS_PER_PAGE_comics
        comics_on_page == Slice(comic_keys, start_index, end_index)
        total_pages == CeilDiv(Len(comic_keys), ITEMS_PER_PAGE_comics)
    IN  IF comics_data = <<>> THEN << back >>
        ELSE [j \in 1..Len(comics_on_page) |->
                 Button(<<"comic", Get(Get(comics_data, comics_on_page[j], <<>>),
                                       "title", comics_on_page[j])>>,
                        ComicCallback(collection_key, comics_on_page[j], "open", 1))]
             \o NavButtons(collection_key, placeholder, page, total_pages)
             \o << back >>

\* The text of a chapter button: the label, or only its first number when
\* the label contains the word.
DisplayText(title) ==
    IF Contains(glava, Lower(title)) /\ FirstDigitRun(title) # <<>>
    THEN FirstDigitRun(title)[1]
    ELSE title

\* The number of a chapter button counted on its page alone.
chapter_number_for_callback_OnPage(i, start_index) == i + 1

\* chapter_number_for_callback = i + 1 + start_index, i being the button's
\* place on the page counted from 0.
chapter_number_for_callback(i, start_index) == i + 1 + start_index

get_chapter_buttons_markup(collection_key, comic_key, page) ==
    LET chapters_data == get_chapters_data(collection_key, comic_key)
        chapter_keys == SortedNatural(Keys(chapters_data))
        start_index == (page - 1) * ITEMS_PER_PAGE_chapters
        end_index == start_index + ITEMS_PER_PAGE_chapters
        chapters_on_page == Slice(chapter_keys, start_index, end_index)
        total_pages == CeilDiv(Len(chapter_keys), ITEMS_PER_PAGE_chapters)
    IN  IF chapters_data = <<>>
        THEN << Button(<<"back_to_comics">>,
                       ComicCallback(collection_key, placeholder, "back", 1)) >>
        ELSE [j \in 1..Len(chapters_on_page) |->
                 Button(<<"chapter", DisplayText(Get(chapters_data, chapters_on_page[j], <<>>))>>,
                        ComicCallback(collection_key, comic_key, "read",
                                      chapter_number_for_callback(j - 1, start_index)))]
             \o NavButtons(collection_key, comic_key, page, total_pages)
             \o << Button(<<"back_to_comics">>,
                          ComicCallback(collection_key, placeholder, "back", 1)) >>

\* ------------------------------------------------------------- effects

\* What one run of a handler did, in order: the alerts/answers given to the
\* callback query, the edits of the message the button was on (each may be
\* refused by the transport), the new messages sent, the calls of
\* telegraph.create_page, whether links.json was read, the chapter key a
\* read token resolved to (an option), and whether the handler ended by
\* raising.
Effects(event, user, handler, input) ==
    [chapter_key |-> <<>>, event |-> event, user |-> user, handler |-> handler,
     input |-> input, alerts |-> <<>>, edits |-> <<>>, sent |-> <<>>,
     create_page |-> 0, links_loaded |-> FALSE, raised |-> FALSE,
     scanned |-> FALSE]

NoEffects == Effects("none", 0, "none", <<>>)

\* edit_text (what = "text") or edit_reply_markup (what = "markup") of the
\* message the pressed button is on; ok tells whether the transport did it.
Edit(ok, what, message) == [ok |-> ok, what |-> what, message |-> message]

\* lst[index] for a Python list, as an option: a negative index counts from
\* the end, an index out of range raises IndexError (the empty option).
Index(lst, index) ==
    LET n == Len(lst)
        j == IF index < 0 THEN n + index ELSE index
    IN  IF j >= 0 /\ j < n THEN << lst[j + 1] >> ELSE <<>>

\* --------------------------------------------------------- read handler

\* The range test without its lower bound.
InvalidChapterIndex_UpperOnly(chapter_index, chapter_keys) ==
    chapter_index >= Len(chapter_keys)

\* read_chapter_handler: `if chapter_index < 0 or chapter_index >= len(chapter_keys)`
InvalidChapterIndex(chapter_index, chapter_keys) ==
    chapter_index < 0 \/ chapter_index >= Len(chapter_keys)

\* The links test passing every list.
NoLinks_Never(links_list) == FALSE

\* read_chapter_handler: `if not links_list`
NoLinks(links_list) == links_list = <<>>

\* links_chunk = "\n".join(links_list): the text of the message that carries
\* the links.
RECURSIVE links_chunk(_)
links_chunk(links_list) ==
    IF links_list = <<>> THEN ""
    ELSE IF Len(links_list) = 1 THEN links_list[1]
    ELSE links_list[1] \o "\n" \o links_chunk(Tail(links_list))

\* The "back to chapters" button of the read handler's messages.
BackToChapters(collection_key, comic_key, comic_title) ==
    Button(<<"back_to_chapters", comic_title>>,
           ComicCallback(collection_key, comic_key, "open", 1))

\* read_chapter_handler from line 734: Telegra.ph is off, or gave no URL.
DirectLinks(eff, collection_key, comic_key, comic_title, links_list, edit_ok) ==
    [eff EXCEPT
        !.edits = @ \o << Edit(edit_ok, "text",
                               Message(<<"direct_links">>, <<>>,
                                       << BackToChapters(collection_key, comic_key,
                                                         comic_title) >>)) >>,
        !.sent = @ \o << Message(<<"links">>, links_list, <<>>) >>,
        !.alerts = @ \o << "" >>]

\* The except branch without the message that carries the links.
TelegraphFailed_NoSend(eff, collection_key, comic_key, comic_title, links_list, edit_ok) ==
    [eff EXCEPT
        !.edits = @ \o << Edit(edit_ok, "text",
                               Message(<<"telegraph_failed">>, <<>>,
                                       << BackToChapters(collection_key, comic_key,
                                                         comic_title) >>)) >>]

\* read_chapter_handler's except branch: create_page, or the edit that shows
\* the created page, raised.
TelegraphFailed(eff, collection_key, comic_key, comic_title, links_list, edit_ok) ==
    [eff EXCEPT
        !.edits = @ \o << Edit(edit_ok, "text",
                               Message(<<"telegraph_failed">>, <<>>,
                                       << BackToChapters(collection_key, comic_key,
                                                         comic_title) >>)) >>,
        !.sent = @ \o << Message(<<"links_count", Len(links_list)>>, links_list, <<>>) >>]

\* The try block with a second create_page after one that raised.
PublishAndShow_Retry(eff, collection_key, comic_key, comic_title, links_list, pub, edit_ok, fallback_edit_ok) ==
    LET called == [eff EXCEPT !.alerts = @ \o << "creating_page" >>,
                              !.create_page = @ + 1]
        again == [called EXCEPT !.create_page = @ + 1]
        ready == Edit(edit_ok, "text",
                      Message(<<"chapter_ready">>, <<>>,
                              << Button(<<"read_chapter">>, <<"url", "page_url">>),
                                 BackToChapters(collection_key, comic_key,
                                                comic_title) >>))
    IN  CASE pub = "url" /\ edit_ok ->
                [called EXCEPT !.edits = @ \o << ready >>]
          [] pub = "url" /\ ~edit_ok ->
                TelegraphFailed([called EXCEPT !.edits = @ \o << ready >>],
                                collection_key, comic_key, comic_title,
                                links_list, fallback_edit_ok)
          [] pub = "nourl" ->
                DirectLinks(called, collection_key, comic_key, comic_title,
                            links_list, edit_ok)
          [] OTHER ->
                TelegraphFailed(again, collection_key, comic_key, comic_title,
                                links_list, fallback_edit_ok)

\* read_chapter_handler's try block, given the publisher's outcome pub
\* ("url": a page with a URL, "nourl": a response without one, "exception")
\* and whether the transport accepts the edits.
PublishAndShow(eff, collection_key, comic_key, comic_title, links_list, pub, edit_ok, fallback_edit_ok) ==
    LET called == [eff EXCEPT !.alerts = @ \o << "creating_page" >>,
                              !.create_page = @ + 1]
        ready == Edit(edit_ok, "text",
                      Message(<<"chapter_ready">>, <<>>,
                              << Button(<<"read_chapter">>, <<"url", "page_url">>),
                                 BackToChapters(collection_key, comic_key,
                                                comic_title) >>))
    IN  CASE pub = "url" /\ edit_ok ->
                [called EXCEPT !.edits = @ \o << ready >>]
          [] pub = "url" /\ ~edit_ok ->
                TelegraphFailed([called EXCEPT !.edits = @ \o << ready >>],
                                collection_key, comic_key, comic_title,
                                links_list, fallback_edit_ok)
          [] pub = "nourl" ->
                DirectLinks(called, collection_key, comic_key, comic_title,
                            links_list, edit_ok)
          [] OTHER ->
                TelegraphFailed(called, collection_key, comic_key, comic_title,
                                links_list, fallback_edit_ok)

read_chapter_handler(user, callback_data, pub, edit_ok, fallback_edit_ok) ==
    LET collection_key == callback_data.collection_key
        comic_key == callback_data.comic_key
        chapters_data == get_chapters_data(collection_key, comic_key)
        chapter_keys == SortedNatural(Keys(chapters_data))
        chapter_index == callback_data.page - 1
        eff == Effects("callback", user, "read_chapter_handler", callback_data)
    IN  IF InvalidChapterIndex(chapter_index, chapter_keys)
        THEN [eff EXCEPT !.alerts = << "invalid_chapter" >>]
        ELSE IF Index(chapter_keys, chapter_index) = <<>>
        THEN [eff EXCEPT !.raised = TRUE]
        ELSE
        LET chapter_key == Index(chapter_keys, chapter_index)[1]
            comic_title == Get(Get(get_comics_data(collection_key), comic_key, <<>>),
                               "title", Komiks)
            links_list == get_links_list(collection_key, comic_key, chapter_key)
            resolved == [eff EXCEPT !.chapter_key = << chapter_key >>,
                                    !.links_loaded = TRUE]
        IN  IF NoLinks(links_list)
            THEN [resolved EXCEPT !.alerts = << "no_links" >>]
            ELSE IF telegraph
            THEN PublishAndShow(resolved, collection_key, comic_key, comic_title,
                                links_list, pub, edit_ok, fallback_edit_ok)
            ELSE DirectLinks(resolved, collection_key, comic_key, comic_title,
                             links_list, edit_ok)

\* ------------------------------------------------------ page handler

paginate_comics_handler(user, callback_data, edit_ok) ==
    LET markup ==
            IF callback_data.comic_key = placeholder
            THEN get_comics_markup(callback_data.collection_key, callback_data.page)
            ELSE get_chapter_buttons_markup(callback_data.collection_key,
                                            callback_data.comic_key,
                                            callback_data.page)
        eff == Effects("callback", user, "paginate_comics_handler", callback_data)
    IN  [eff EXCEPT
            !.edits = << Edit(edit_ok, "markup", Message(<<"unchanged">>, <<>>, markup)) >>,
            !.alerts = IF edit_ok THEN << "" >> ELSE << "going_to_page", "" >>]

\* ------------------------------------------------- menu, random, search

\* An edit_text that is not guarded by try/except: when the transport
\* refuses it the handler ends by raising.
UnguardedEdit(eff, edit_ok, message) ==
    IF edit_ok
    THEN [eff EXCEPT !.edits = @ \o << Edit(TRUE, "text", message) >>,
                     !.alerts = @ \o << "" >>]
    ELSE [eff EXCEPT !.edits = @ \o << Edit(FALSE, "text", message) >>,
                     !.raised = TRUE]

\* try: edit_text(...) except Exception: answer(...)
EditOrAnswer(eff, edit_ok, message) ==
    IF edit_ok
    THEN [eff EXCEPT !.edits = @ \o << Edit(TRUE, "text", message) >>]
    ELSE [eff EXCEPT !.edits = @ \o << Edit(FALSE, "text", message) >>,
                     !.sent = @ \o << message >>]

start_handler(user) ==
    [Effects("command", user, "start_handler", <<>>) EXCEPT
        !.sent = << Message(<<"welcome">>, <<>>, get_main_menu_markup(user)) >>]

back_to_main_menu_handler(user, edit_ok) ==
    LET eff == EditOrAnswer(Effects("callback", user, "back_to_main_menu_handler",
                                    MenuCallback("back")),
                            edit_ok,
                            Message(<<"main_menu">>, <<>>, get_main_menu_markup(user)))
    IN  [eff EXCEPT !.alerts = @ \o << "" >>]

\* open_collections_handler and back_to_collections_handler: the same body.
CollectionsShown(eff, edit_ok) ==
    UnguardedEdit(eff, edit_ok, Message(<<"collections">>, <<>>, get_collections_markup))

open_collections_handler(user, edit_ok) ==
    CollectionsShown(Effects("callback", user, "open_collections_handler",
                             MenuCallback("collections")), edit_ok)

back_to_collections_handler(user, callback_data, edit_ok) ==
    CollectionsShown(Effects("callback", user, "back_to_collections_handler",
                             callback_data), edit_ok)

\* open_comics_handler and back_to_comics_handler: the collection's header
\* over the first page of its comics.
ComicsShown(eff, collection_key, edit_ok) ==
    LET collection == Get(get_all_data, collection_key, <<>>)
    IN  UnguardedEdit(eff, edit_ok,
                      Message(<<"collection", Get(collection, "icon", "icon_default"),
                                Get(collection, "title", Kollekciya)>>,
                              <<>>, get_comics_markup(collection_key, 1)))

open_comics_handler(user, callback_data, edit_ok) ==
    ComicsShown(Effects("callback", user, "open_comics_handler", callback_data),
                callback_data.collection_key, edit_ok)

back_to_comics_handler(user, callback_data, edit_ok) ==
    ComicsShown(Effects("callback", user, "back_to_comics_handler", callback_data),
                callback_data.collection_key, edit_ok)

\* open_chapters_handler: the comic's header with its number of chapters
\* over the first page of its chapters, whatever page the token carries.
open_chapters_handler(user, callback_data, edit_ok) ==
    LET collection_key == callback_data.collection_key
        comic_key == callback_data.comic_key
        comic_title == Get(Get(get_comics_data(collection_key), comic_key, <<>>),
                           "title", Komiks)
        chapters_count == Len(get_chapters_data(collection_key, comic_key))
    IN  UnguardedEdit(Effects("callback", user, "open_chapters_handler", callback_data),
                      edit_ok,
                      Message(<<"comic_chapters", comic_title, chapters_count>>, <<>>,
                              get_chapter_buttons_markup(collection_key, comic_key, 1)))

\* get_all_comic_identifiers: every (collection_key, comic_key, title) of
\* the catalog, collection by collection in document order.
RECURSIVE Flatten(_)
Flatten(data) ==
    IF data = <<>> THEN <<>>
    ELSE LET comics == Get(Head(data).v, "comics", <<>>)
         IN  [j \in 1..Len(comics) |->
                 << Head(data).k, comics[j].k, Get(comics[j].v, "title", comics[j].k) >>]
             \o Flatten(Tail(data))

\* The list were it the comics of the first collection alone.
get_all_comic_identifiers_FirstCollection ==
    Flatten(SubSeq(get_all_data, 1, Min(1, Len(get_all_data))))

get_all_comic_identifiers == Flatten(get_all_data)

\* The draw that always takes the head of the list.
RandomPicks_HeadOnly == 1..1

\* random.choice(all_comics): the indices it can draw.
RandomPicks == 1..Max(1, Len(get_all_comic_identifiers))

\* random_comic_handler; pick is the index random.choice draws.
random_comic_handler(user, pick, edit_ok) ==
    LET all_comics == get_all_comic_identifiers
        eff == [Effects("callback", user, "random_comic_handler", MenuCallback("random"))
                    EXCEPT !.alerts = << "searching_random" >>]
    IN  IF all_comics = <<>>
        THEN [UnguardedEdit(eff, edit_ok,
                            Message(<<"no_comics">>, <<>>,
                                    << Button(<<"to_main_menu">>, MenuCallback("back")) >>))
                 EXCEPT !.alerts = << "searching_random" >>]
        ELSE LET chosen == all_comics[pick]
                 chapters_count == Len(get_chapters_data(chosen[1], chosen[2]))
             IN  EditOrAnswer(eff, edit_ok,
                              Message(<<"random_comic", chosen[3], chapters_count>>, <<>>,
                                      get_chapter_buttons_markup(chosen[1], chosen[2], 1)))

start_search_handler(user, edit_ok) ==
    UnguardedEdit(Effects("callback", user, "start_search_handler", MenuCallback("search")),
                  edit_ok,
                  Message(<<"search_prompt">>, <<>>,
                          << Button(<<"cancel">>, MenuCallback("back")) >>))

\* str.strip(): without the leading and trailing blanks.
RECURSIVE Strip(_)
Strip(s) ==
    IF s = <<>> THEN s
    ELSE IF Head(s) = " " THEN Strip(Tail(s))
    ELSE IF s[Len(s)] = " " THEN Strip(SubSeq(s, 1, Len(s) - 1))
    ELSE s

\* The scan comparing the query with the title as it is written.
FoundComics_CaseSensitive(query) ==
    SelectSeq(get_all_comic_identifiers, LAMBDA c : Contains(query, c[3]))

\* process_search_query's scan: the comics whose lower-cased title contains
\* the query, as (collection_key, comic_key, title), in document order.
FoundComics(query) ==
    SelectSeq(get_all_comic_identifiers, LAMBDA c : Contains(query, Lower(c[3])))

\* found_comics.sort(key=lambda x: x["title"])
SortedByTitle(found_comics) ==
    SortedByString(found_comics,
                   List([j \in 1..Len(found_comics) |-> found_comics[j][3]]))

\* The FSM state were the mode ended only by a query that found something.
StateAfterQuery_OnlyWhenFound(query, outcome) ==
    IF outcome = "found" THEN "none" ELSE "waiting_for_query"

\* The FSM state process_search_query leaves: `await state.clear()` comes
\* right after the query is read, before any of the outcomes ("no_query",
\* "found", "not_found").
StateAfterQuery(query, outcome) == "none"

\* The search that takes every text for a query.
NoQuery_Never(query) == FALSE

\* `if not query:` of process_search_query.
NoQuery(query) == query = <<>>

\* `scanned` records that the handler went on to `await get_all_data()` and
\* the loops over the collections.
process_search_query(user, text) ==
    LET query == Strip(Lower(text))
        early == Effects("text", user, "process_search_query", text)
        eff == [early EXCEPT !.scanned = TRUE]
        to_menu == Button(<<"to_main_menu">>, MenuCallback("back"))
        found_comics == SortedByTitle(FoundComics(query))
    IN  IF NoQuery(query)
        THEN [early EXCEPT !.sent = << Message(<<"no_query">>, <<>>, << to_menu >>) >>]
        ELSE IF found_comics # <<>>
        THEN [eff EXCEPT !.sent =
                << Message(<<"found", Len(found_comics)>>, <<>>,
                           [j \in 1..Len(found_comics) |->
                               Button(<<"comic", found_comics[j][3]>>,
                                      ComicCallback(found_comics[j][1], found_comics[j][2],
                                                    "open", 1))]
                           \o << to_menu >>) >>]
        ELSE [eff EXCEPT !.sent = << Message(<<"not_found">>, <<>>, << to_menu >>) >>]

\* ----------------------------------------------------- subscriber toggle

\* users.remove(user_id): without the first occurrence of user_id.
Remove(users, user_id) ==
    LET j == CHOOSE j \in 1..Len(users) :
                 users[j] = user_id /\ \A i \in 1..(j - 1) : users[i] # user_id
    IN  SubSeq(users, 1, j - 1) \o SubSeq(users, j + 1, Len(users))

\* The toggle without its membership test: it always appends.
ToggledUsers_AlwaysAppends(users, user_id) ==
    [users |-> Append(users, user_id), is_added |-> TRUE]

\* The toggle that empties the list when it removes a user.
ToggledUsers_Clears(users, user_id) ==
    IF In(user_id, users)
    THEN [users |-> <<>>, is_added |-> FALSE]
    ELSE [users |-> Append(users, user_id), is_added |-> TRUE]

\* toggle_notification_user between its load and its save: the list to
\* save and the result to return.
ToggledUsers(users, user_id) ==
    IF In(user_id, users)
    THEN [users |-> Remove(users, user_id), is_added |-> FALSE]
    ELSE [users |-> Append(users, user_id), is_added |-> TRUE]

\* save_json_async(USERS_FILE, users): the file afterwards. A failed write
\* leaves the old file (open failed) or a truncated one (write failed).
SavedFile(file, users, save) ==
    CASE save = "ok" -> JsonFile(users)
      [] save = "truncated" -> CorruptFile
      [] OTHER -> file

\* toggle_notify_handler after toggle_notification_user returned is_added.
ToggleRendered(users_file, user, is_added, edit_ok) ==
    LET markup == MainMenuMarkup(users_file, user)
        eff == Effects("callback", user, "toggle_notify_handler",
                       MenuCallback("toggle_notify"))
    IN  [eff EXCEPT
            !.edits = << Edit(edit_ok, "markup", Message(<<"unchanged">>, <<>>, markup)) >>,
            !.sent = IF edit_ok THEN <<>>
                     ELSE << Message(<<"settings_updated">>, <<>>, markup) >>,
            !.alerts = << IF is_added THEN "notify_on" ELSE "notify_off" >>]

\* ------------------------------------------------------- initial states

NoUpdate == [kind |-> "none", data |-> <<>>, user |-> 0]
CallbackUpdate(user, callback_data) ==
    [kind |-> "callback", data |-> callback_data, user |-> user]
TextUpdate(user, text) == [kind |-> "text", data |-> text, user |-> user]
CommandUpdate(user, command) == [kind |-> "command", data |-> command, user |-> user]
\* A message without text (a photo, a sticker): message.text is None.
MediaUpdate(user) == [kind |-> "media", data |-> <<>>, user |-> user]

IdleTask == [user |-> 0, users |-> <<>>, is_added |-> FALSE, pc |-> "idle"]

NoHist ==
    [base |-> {}, calls |-> [u \in Users |-> 0], added |-> [u \in Users |-> 0],
     removed |-> [u \in Users |-> 0], save_failed |-> FALSE, seen |-> NoEffects]

\* (The catalog of the lone comic is walked in SpecWalk; its comic, key and
\* chapters also are in the last catalog.)
DataFiles ==
    {MissingDoc} \cup {JsonFile(d) : d \in (1..Len(DataDocs)) \ {Len(DataDocs) - 1}}
LinksFiles == {MissingDoc} \cup {JsonFile(d) : d \in 1..Len(LinksDocs)}

\* The ways main can end: Telegraph ready, switched off in .env, not
\* importable, create_account failing.
Envs ==
    {[TELEGRAPH_ENABLED |-> e, TELEGRAPH_AVAILABLE |-> a, create_account_ok |-> c] :
        <<e, a, c>> \in {<<TRUE, TRUE, TRUE>>, <<FALSE, TRUE, TRUE>>,
                         <<TRUE, FALSE, TRUE>>, <<TRUE, TRUE, FALSE>>}}

\* users.json: absent, unparsable, not a list, or a duplicate-free list.
UsersFiles ==
    {MissingFile, CorruptFile, ObjectFile, JsonFile(<<>>), JsonFile(<<1>>),
     JsonFile(<<MaxUsers, 1>>)}

\* send_daily_update is not running.
IdleDaily == [markup |-> <<>>, users |-> <<>>, pc |-> "idle", attempts |-> <<>>]

\* restructure_links.py has not been run: it has no links.json of its own.
\* `flat` remembers the links.json the first run found, `save_failed`
\* whether a write of the script did not go through.
NoScript ==
    [links_json |-> MissingFile, save_failed |-> FALSE, links_backup_json |-> MissingFile,
     runs |-> 0, flat |-> MissingFile]

\* No helper function is being called on its own.
NoCalc == [fn |-> "none", args |-> <<>>, returned |-> <<>>]

\* The state when polling starts, the files being among the given ones.
InitBot(datas, linkss, envs, userss) ==
    /\ data_json \in datas
    /\ links_json \in linkss
    /\ env \in envs
    /\ users_json \in userss
    /\ fsm = [u \in Users |-> "none"]
    /\ tasks = [t \in Tasks |-> IdleTask]
    /\ update = NoUpdate
    /\ out = NoEffects
    /\ hist = NoHist
    /\ daily = IdleDaily

\* The same, the migration script not being run and no helper being called
\* on its own.
InitWith(datas, linkss, envs, userss) ==
    /\ InitBot(datas, linkss, envs, userss)
    /\ script = NoScript
    /\ calc = NoCalc

Init == InitWith(DataFiles, LinksFiles, Envs, UsersFiles)

\* ------------------------------------------------------------- updates

\* The page numbers tokens carry: a few around zero, and the number of
\* chapters of the addressed comic and one more.
PageInputs(collection_key, comic_key) ==
    ((-MaxNeg)..MaxPage)
    \cup {Len(get_chapters_data(collection_key, comic_key)),
          Len(get_chapters_data(collection_key, comic_key)) + 1}

ComicTokens(action) ==
    UNION {{ComicCallback(c, k, action, p) : p \in PageInputs(c, k)} :
              <<c, k>> \in CollectionKeys \X ComicKeys}

\* The dispatcher takes the next update once the previous one is finished.
Take(upd) ==
    /\ update = NoUpdate
    /\ out = NoEffects
    /\ update' = upd
    /\ UNCHANGED <<calc, daily, script, data_json, links_json, users_json, env, fsm, tasks, out, hist>>

\* The handler's task has ended and what it did has reached the chat: the
\* record of the update's effects is closed.
Finish ==
    /\ update = NoUpdate
    /\ out # NoEffects
    /\ out' = NoEffects
    /\ UNCHANGED <<calc, daily, script, data_json, links_json, users_json, env, fsm, tasks, update, hist>>

\* The handler of the taken update ran and did eff.
Handled(eff) ==
    /\ out' = eff
    /\ update' = NoUpdate

IsCallback(prefix, action) ==
    /\ update.kind = "callback"
    /\ update.data.prefix = prefix
    /\ update.data.action = action

\* A press of a button carrying a read token arrives.
TakeRead ==
    \E u \in Users, cb \in ComicTokens("read") : Take(CallbackUpdate(u, cb))

\* @dp.callback_query(ComicCallback.filter(F.action == "read"))
ReadChapter ==
    /\ IsCallback("comic", "read")
    /\ \E pub \in {"url", "nourl", "exception"}, edit_ok \in BOOLEAN,
          fallback_edit_ok \in BOOLEAN :
          Handled(read_chapter_handler(update.user, update.data, pub, edit_ok,
                                       fallback_edit_ok))
    /\ UNCHANGED <<calc, daily, script, data_json, links_json, users_json, env, fsm, tasks, hist>>

InitRead == InitWith(DataFiles, LinksFiles, Envs, {MissingFile})
NextRead == TakeRead \/ ReadChapter \/ Finish
SpecRead == InitRead /\ [][NextRead]_vars

\* -------------------------------------------------------- page tokens

\* A press of a « or » button (or of a stale or forged page token) arrives.
TakePage ==
    \E u \in Users, cb \in ComicTokens("page") : Take(CallbackUpdate(u, cb))

\* @dp.callback_query(ComicCallback.filter(F.action == "page"))
PaginateComics ==
    /\ IsCallback("comic", "page")
    /\ \E edit_ok \in BOOLEAN :
          Handled(paginate_comics_handler(update.user, update.data, edit_ok))
    /\ UNCHANGED <<calc, daily, script, data_json, links_json, users_json, env, fsm, tasks, hist>>

InitPage == InitWith(DataFiles, {MissingDoc}, {CHOOSE e \in Envs : e.TELEGRAPH_ENABLED},
                     {MissingFile})
NextPage == TakePage \/ PaginateComics \/ Finish
SpecPage == InitPage /\ [][NextPage]_vars

\* ------------------------------------------------- menu and search session

\* The texts users type.
Queries ==
    {<<>>, <<" ">>, <<"a">>, <<" ", "S", "A", " ">>, <<"m">>, <<"k", "1">>, <<"n", "n">>}

\* A press of the search, back or random button of the menu arrives.
TakeMenu ==
    \E u \in Users, action \in {"search", "back", "random"} :
        Take(CallbackUpdate(u, MenuCallback(action)))

\* A text message that is no command arrives.
TakeText == \E u \in Users, text \in Queries : Take(TextUpdate(u, text))

\* A message that has no text arrives.
TakeMedia == \E u \in Users : Take(MediaUpdate(u))

\* The command /start arrives.
TakeStart == \E u \in Users : Take(CommandUpdate(u, "start"))

\* The clearing were it of every user's state at once.
state_clear_Everyone(user) == [u \in Users |-> "none"]

\* `await state.clear()`: the FSM context of a handler is the one of the
\* user of its update; the states of the other users are not touched.
state_clear(user) == [fsm EXCEPT ![user] = "none"]

\* `await state.set_state(SearchState.waiting_for_query)`
state_set_state(user) == [fsm EXCEPT ![user] = "waiting_for_query"]

\* @dp.message(Command("start"))
Start ==
    /\ update.kind = "command"
    /\ fsm' = state_clear(update.user)
    /\ Handled(start_handler(update.user))
    /\ UNCHANGED <<calc, daily, script, data_json, links_json, users_json, env, tasks, hist>>

\* @dp.callback_query(MenuCallback.filter(F.action == "back"))
BackToMainMenu ==
    /\ IsCallback("menu", "back")
    /\ fsm' = state_clear(update.user)
    /\ \E edit_ok \in BOOLEAN :
          Handled(back_to_main_menu_handler(update.user, edit_ok))
    /\ UNCHANGED <<calc, daily, script, data_json, links_json, users_json, env, tasks, hist>>

\* @dp.callback_query(MenuCallback.filter(F.action == "random"))
RandomComic ==
    /\ IsCallback("menu", "random")
    /\ fsm' = state_clear(update.user)
    /\ \E edit_ok \in BOOLEAN,
          pick \in RandomPicks :
          Handled(random_comic_handler(update.user, pick, edit_ok))
    /\ UNCHANGED <<calc, daily, script, data_json, links_json, users_json, env, tasks, hist>>

\* @dp.callback_query(MenuCallback.filter(F.action == "search"))
StartSearch ==
    /\ IsCallback("menu", "search")
    /\ fsm' = state_set_state(update.user)
    /\ \E edit_ok \in BOOLEAN :
          Handled(start_search_handler(update.user, edit_ok))
    /\ UNCHANGED <<calc, daily, script, data_json, links_json, users_json, env, tasks, hist>>

\* @dp.message(SearchState.waiting_for_query): every message of a user in
\* that state, with or without text. Without text `message.text.lower()`
\* raises before state.clear().
ProcessSearchQuery ==
    /\ update.kind \in {"text", "media"}
    /\ fsm[update.user] = "waiting_for_query"
    /\ IF update.kind = "media"
       THEN /\ fsm' = fsm
            /\ Handled([Effects("media", update.user, "process_search_query", <<>>)
                           EXCEPT !.raised = TRUE])
       ELSE LET eff == process_search_query(update.user, update.data)
            IN  /\ fsm' = [fsm EXCEPT ![update.user] =
                              StateAfterQuery(Strip(Lower(update.data)),
                                              eff.sent[1].text[1])]
                /\ Handled(eff)
    /\ UNCHANGED <<calc, daily, script, data_json, links_json, users_json, env, tasks, hist>>

\* A message that is no command while the user's FSM state is not
\* waiting_for_query: no handler is registered for it.
UnhandledMessage ==
    /\ update.kind \in {"text", "media"}
    /\ fsm[update.user] # "waiting_for_query"
    /\ Handled(Effects(update.kind, update.user, "unhandled", update.data))
    /\ UNCHANGED <<calc, daily, script, data_json, links_json, users_json, env, fsm, tasks, hist>>

InitSearch ==
    InitWith(DataFiles, {MissingDoc}, {CHOOSE e \in Envs : e.TELEGRAPH_ENABLED},
             {MissingFile, JsonFile(<<1>>)})
NextSearch ==
    \/ TakeMenu \/ TakeText \/ TakeMedia \/ TakeStart
    \/ Start \/ BackToMainMenu \/ RandomComic \/ StartSearch
    \/ ProcessSearchQuery \/ UnhandledMessage \/ Finish
SpecSearch == InitSearch /\ [][NextSearch]_vars

\* ---------------------------------------------------- catalog navigation

\* A press of the collections button of the menu arrives.
TakeCollections ==
    \E u \in Users : Take(CallbackUpdate(u, MenuCallback("collections")))

\* A press of a collection button, or of "back to collections", arrives.
TakeCollection ==
    \E u \in Users, c \in CollectionKeys, action \in {"open", "back"} :
        Take(CallbackUpdate(u, CollectionCallback(c, action)))

\* A press of a comic button, of "back to chapters" or of "back to comics"
\* arrives; the bot's own buttons of these kinds carry page 1.
TakeComic ==
    \E u \in Users, c \in CollectionKeys, k \in ComicKeys, action \in {"open", "back"} :
        Take(CallbackUpdate(u, ComicCallback(c, k, action, 1)))

\* @dp.callback_query(MenuCallback.filter(F.action == "collections"))
OpenCollections ==
    /\ IsCallback("menu", "collections")
    /\ \E edit_ok \in BOOLEAN : Handled(open_collections_handler(update.user, edit_ok))
    /\ UNCHANGED <<calc, daily, script, data_json, links_json, users_json, env, fsm, tasks, hist>>

\* @dp.callback_query(CollectionCallback.filter(F.action == "open"))
OpenComics ==
    /\ IsCallback("coll", "open")
    /\ \E edit_ok \in BOOLEAN :
          Handled(open_comics_handler(update.user, update.data, edit_ok))
    /\ UNCHANGED <<calc, daily, script, data_json, links_json, users_json, env, fsm, tasks, hist>>

\* @dp.callback_query(CollectionCallback.filter(F.action == "back"))
BackToCollections ==
    /\ IsCallback("coll", "back")
    /\ \E edit_ok \in BOOLEAN :
          Handled(back_to_collections_handler(update.user, update.data, edit_ok))
    /\ UNCHANGED <<calc, daily, script, data_json, links_json, users_json, env, fsm, tasks, hist>>

\* @dp.callback_query(ComicCallback.filter(F.action == "back"))
BackToComics ==
    /\ IsCallback("comic", "back")
    /\ \E edit_ok \in BOOLEAN :
          Handled(back_to_comics_handler(update.user, update.data, edit_ok))
    /\ UNCHANGED <<calc, daily, script, data_json, links_json, users_json, env, fsm, tasks, hist>>

\* @dp.callback_query(ComicCallback.filter(F.action == "open"))
OpenChapters ==
    /\ IsCallback("comic", "open")
    /\ \E edit_ok \in BOOLEAN :
          Handled(open_chapters_handler(update.user, update.data, edit_ok))
    /\ UNCHANGED <<calc, daily, script, data_json, links_json, users_json, env, fsm, tasks, hist>>

\* data.json for the navigation: absent, the first small catalog, the big one.
NavDataFiles == {MissingDoc, JsonFile(1), JsonFile(Len(DataDocs))}

InitNav ==
    InitWith(NavDataFiles, {JsonFile(1)},
             {e \in Envs : e.TELEGRAPH_AVAILABLE /\ e.create_account_ok}, {MissingFile})
NextNav ==
    \/ TakeCollections \/ TakeCollection \/ TakeComic \/ TakeRead \/ TakePage
    \/ TakeMenu \/ TakeText \/ TakeMedia \/ TakeStart
    \/ OpenCollections \/ OpenComics \/ BackToCollections \/ BackToComics
    \/ OpenChapters \/ ReadChapter \/ PaginateComics
    \/ Start \/ BackToMainMenu \/ RandomComic \/ StartSearch
    \/ ProcessSearchQuery \/ UnhandledMessage \/ Finish
SpecNav == InitNav /\ [][NextNav]_vars

\* ------------------------------------------- the same token, twice

\* The buttons pressed again and again: those of one collection and of two
\* of its comic keys.
TakeProbe ==
    \E u \in Users :
        \/ \E action \in {"collections", "back", "search"} :
              Take(CallbackUpdate(u, MenuCallback(action)))
        \/ \E action \in {"open", "back"} :
              Take(CallbackUpdate(u, CollectionCallback(<<"m">>, action)))
        \/ \E k \in {<<"b">>, placeholder}, action \in {"open", "back", "page", "read"},
              page \in 1..(MaxPage - 1) :
              Take(CallbackUpdate(u, ComicCallback(<<"m">>, k, action, page)))

\* A text message, a message without text, /start or the random button
\* arrives: the interactions that change the FSM state in between.
TakeOther ==
    \E u \in Users :
        \/ Take(TextUpdate(u, <<"a">>))
        \/ Take(MediaUpdate(u))
        \/ Take(CommandUpdate(u, "start"))
        \/ Take(CallbackUpdate(u, MenuCallback("random")))

\* The record of a finished handling of a button is kept for comparison
\* with later handlings (an observer's step: the program's state is as
\* after Finish).
Remember ==
    /\ update = NoUpdate
    /\ out.event = "callback"
    /\ out.handler # "random_comic_handler"
    /\ hist' = [hist EXCEPT !.seen = out]
    /\ out' = NoEffects
    /\ UNCHANGED <<calc, daily, script, data_json, links_json, users_json, env, fsm, tasks, update>>

InitProbe ==
    InitWith({JsonFile(1)}, {JsonFile(1)},
             {e \in Envs : e.TELEGRAPH_ENABLED /\ e.TELEGRAPH_AVAILABLE /\ e.create_account_ok},
             {JsonFile(<<1>>)})
NextProbe ==
    \/ TakeProbe \/ TakeOther
    \/ OpenCollections \/ OpenComics \/ BackToCollections \/ BackToComics
    \/ OpenChapters \/ ReadChapter \/ PaginateComics
    \/ Start \/ BackToMainMenu \/ RandomComic \/ StartSearch
    \/ ProcessSearchQuery \/ UnhandledMessage \/ Finish \/ Remember
SpecProbe == InitProbe /\ [][NextProbe]_vars

\* ------------------------------------------------ toggle_notify_handler

\* The subscribers users.json lists.
Members(users_file) ==
    {u \in Users : In(u, OrEmpty(load_json_async(users_file)))}

Quiescent == \A t \in Tasks : tasks[t].pc = "idle"

CallsStarted(h) ==
    LET RECURSIVE Sum(_)
        Sum(S) == IF S = {} THEN 0
                  ELSE LET u == CHOOSE u \in S : TRUE IN h.calls[u] + Sum(S \ {u})
    IN  Sum(Users)

\* toggle_notification_user up to its second await: users.json is loaded
\* (anything that is no list counts as []), the user is removed or appended.
ToggleLoad(t, u) ==
    /\ tasks[t].pc = "idle"
    /\ LET h == IF Quiescent THEN [NoHist EXCEPT !.base = Members(users_json)]
                ELSE hist
           loaded == OrEmpty(load_json_async(users_json))
           toggled == ToggledUsers(loaded, u)
       IN  /\ CallsStarted(h) < MaxCalls
           /\ hist' = [h EXCEPT !.calls[u] = @ + 1]
           /\ tasks' = [tasks EXCEPT ![t] =
                           [user |-> u, users |-> toggled.users, is_added |-> toggled.is_added,
                            pc |-> "save"]]
    /\ UNCHANGED <<calc, daily, script, data_json, links_json, users_json, env, fsm, update, out>>

\* toggle_notification_user from save_json_async to its return: the list
\* computed from what was loaded is written over the file, and the result
\* is returned whether or not the write succeeded.
ToggleSave(t, save) ==
    /\ tasks[t].pc = "save"
    /\ users_json' = SavedFile(users_json, tasks[t].users, save)
    /\ tasks' = [tasks EXCEPT ![t].pc = "menu"]
    /\ hist' = [hist EXCEPT
                   !.added[tasks[t].user] = @ + (IF tasks[t].is_added THEN 1 ELSE 0),
                   !.removed[tasks[t].user] = @ + (IF tasks[t].is_added THEN 0 ELSE 1),
                   !.save_failed = @ \/ save # "ok"]
    /\ UNCHANGED <<calc, daily, script, data_json, links_json, env, fsm, update, out>>

\* toggle_notify_handler after toggle_notification_user: the menu keyboard
\* is rebuilt from users.json as it is now, and the alert is shown.
ToggleRender(t, edit_ok) ==
    /\ tasks[t].pc = "menu"
    /\ out' = ToggleRendered(users_json, tasks[t].user, tasks[t].is_added, edit_ok)
    /\ tasks' = [tasks EXCEPT ![t] = IdleTask]
    /\ UNCHANGED <<calc, daily, script, data_json, links_json, users_json, env, fsm, update, hist>>

InitToggle ==
    InitWith({MissingDoc}, {MissingDoc}, {CHOOSE e \in Envs : e.TELEGRAPH_ENABLED},
             UsersFiles)
NextToggle ==
    \/ \E t \in Tasks, u \in Users : ToggleLoad(t, u)
    \/ \E t \in Tasks, save \in {"ok", "unchanged", "truncated"} : ToggleSave(t, save)
    \/ \E t \in Tasks, edit_ok \in BOOLEAN : ToggleRender(t, edit_ok)
SpecToggle == InitToggle /\ [][NextToggle]_vars

\* ---------------------------------------------------- send_daily_update

\* The loop were it left at the first send that fails.
AfterSend_AbortOnFailure(ok, more) == IF ok /\ more THEN "sending" ELSE "done"

\* `try: await bot_obj.send_message(...) except Exception: print(...)`: where
\* the loop stands after a send, ok telling whether it succeeded and more
\* whether users are left in the list.
AfterSend(ok, more) == IF more THEN "sending" ELSE "done"

\* The scheduler runs send_daily_update, which loads users.json, returns at
\* once when that gives no user, and else builds the keyboard and enters the
\* loop over the list it loaded.
DailyStart ==
    /\ daily.pc = "idle"
    /\ LET users == OrEmpty(load_json_async(users_json))
       IN  daily' = IF users = <<>>
                    THEN [IdleDaily EXCEPT !.pc = "done"]
                    ELSE [markup |-> get_collections_markup, users |-> users,
                          pc |-> "sending", attempts |-> <<>>]
    /\ UNCHANGED <<calc, script, data_json, links_json, users_json, env, fsm, tasks, update, out, hist>>

\* One turn of `for user_id in users`: the send to the next user of the
\* loaded list succeeds or raises.
DailySend ==
    /\ daily.pc = "sending"
    /\ \E ok \in BOOLEAN :
          LET user_id == daily.users[Len(daily.attempts) + 1]
              attempts == Append(daily.attempts,
                                 [text |-> <<"daily_update">>, ok |-> ok,
                                  chat_id |-> user_id,
                                  reply_markup |-> daily.markup])
          IN  daily' = [daily EXCEPT
                           !.attempts = attempts,
                           !.pc = AfterSend(ok, Len(attempts) < Len(daily.users))]
    /\ UNCHANGED <<calc, script, data_json, links_json, users_json, env, fsm, tasks, update, out, hist>>

\* send_daily_update has returned; the job is run again the next day.
DailyEnd ==
    /\ daily.pc = "done"
    /\ daily' = IdleDaily
    /\ UNCHANGED <<calc, script, data_json, links_json, users_json, env, fsm, tasks, update, out, hist>>

\* Subscriber files for the broadcast: absent, empty, one user, several
\* users, one user listed twice.
DailyUsersFiles ==
    {MissingFile, JsonFile(<<>>), JsonFile(<<1>>), JsonFile(<<MaxUsers, 1>>),
     JsonFile(<<1, MaxUsers, 1>>)}

InitDaily ==
    InitWith({MissingDoc, JsonFile(1)}, {MissingDoc},
             {CHOOSE e \in Envs : e.TELEGRAPH_ENABLED}, DailyUsersFiles)
\* The broadcast, and users switching their notifications meanwhile, one
\* toggle at a time.
NextDaily ==
    \/ DailyStart \/ DailySend \/ DailyEnd
    \/ \E u \in Users : ToggleLoad(1, u)
    \/ ToggleSave(1, "ok")
    \/ ToggleRender(1, TRUE)
SpecDaily == InitDaily /\ [][NextDaily]_vars
\* Every awaited send returns or raises, so a started loop takes its turns.
SpecDailyFair == SpecDaily /\ WF_vars(DailySend)

\* ------------------------------------- sorted(..., key=natural_sort_key)

\* Chapter keys to sort: one or two digit runs, leading zeros, capitals.
chapter_1 == <<"c", "h", "a", "p", "t", "e", "r", "_", "1">>
chapter_2 == <<"c", "h", "a", "p", "t", "e", "r", "_", "2">>
chapter_10 == <<"c", "h", "a", "p", "t", "e", "r", "_", "1", "0">>
SortKeys ==
    {c1, c01, Cap1, chapter_1, chapter_2, chapter_10,
     <<"c", "1", "_", "2">>, <<"c", "1", "_", "1", "0">>, <<"c", "2", "_", "1">>}

\* The lists of at most MaxSortLen keys.
SortInputs == UNION {[1..n -> SortKeys] : n \in 0..MaxSortLen}

\* sorted(chapters_data.keys(), key=natural_sort_key) is called on the list
\* calc.args.
SortChapterKeys ==
    /\ calc.fn = "sorted" /\ calc.returned = <<>>
    /\ calc' = [calc EXCEPT !.returned = << SortedNatural(calc.args) >>]
    /\ UNCHANGED <<daily, script, data_json, links_json, users_json, env, fsm, tasks, update, out, hist>>

InitSort ==
    /\ InitBot({MissingDoc}, {MissingDoc}, {CHOOSE e \in Envs : e.TELEGRAPH_ENABLED},
               {MissingFile})
    /\ script = NoScript
    /\ calc \in {[fn |-> "sorted", args |-> lst, returned |-> <<>>] : lst \in SortInputs}
NextSort == SortChapterKeys
SpecSort == InitSort /\ [][NextSort]_vars

\* ------------------------------------------- a walk through the menus

\* The user presses a button of what the last interaction left on the
\* screen. (The notification button is pressed in the toggle's own
\* specification; the page indicator and the link to the published page
\* carry no token.)
PressShown ==
    /\ update = NoUpdate
    /\ out.handler # "none"
    /\ LET shown == [j \in 1..Len(SelectSeq(out.edits, LAMBDA e : e.ok)) |->
                        SelectSeq(out.edits, LAMBDA e : e.ok)[j].message] \o out.sent
       IN  \E m \in 1..Len(shown) : \E j \in 1..Len(shown[m].markup) :
              LET b == shown[m].markup[j]
              IN  /\ b.text[1] \notin {"page", "read_chapter", "notify"}
                  /\ update' = CallbackUpdate(out.user, b.callback_data)
    /\ UNCHANGED <<calc, daily, script, data_json, links_json, users_json, env, fsm, tasks, out, hist>>

\* Catalogs walked: the small one, the one whose only comic bears the
\* marker as its key, the one with two pages of comics.
WalkDataFiles ==
    {JsonFile(1), JsonFile(Len(DataDocs) - 1), JsonFile(Len(DataDocs))}

InitWalk ==
    InitWith(WalkDataFiles, {JsonFile(1)},
             {e \in Envs : e.TELEGRAPH_AVAILABLE /\ e.create_account_ok}, {MissingFile})
NextWalk ==
    \/ TakeStart \/ Start \/ PressShown
    \/ OpenCollections \/ OpenComics \/ BackToCollections \/ BackToComics
    \/ OpenChapters \/ ReadChapter \/ PaginateComics
    \/ BackToMainMenu \/ RandomComic \/ StartSearch
SpecWalk == InitWalk /\ [][NextWalk]_vars

\* ------------------------------------------------ tokens on the wire

\* Keys of tokens: catalog keys, the empty key, a key with the separator in
\* it, the marker, a long key.
TokenKeys ==
    {<<"m">>, <<"b">>, <<>>, <<"a", sep, "b">>, placeholder,
     List([j \in 1..(MAX_CALLBACK_LENGTH - 4) |-> "k"])}

\* The tokens that can be constructed over these keys.
Tokens ==
    {MenuCallback(a) : a \in {"search", "random", "collections", "toggle_notify", "back"}}
    \cup {CollectionCallback(c, a) : c \in TokenKeys, a \in {"open", "back"}}
    \cup {ComicCallback(c, k, a, p) :
              c \in TokenKeys, k \in TokenKeys, a \in {"open", "back", "page", "read"},
              p \in (-MaxNeg)..MaxPage \cup {ITEMS_PER_PAGE_chapters + 1}}

\* A keyboard is built: the token of a button is packed.
Pack ==
    /\ calc.fn = "pack" /\ calc.returned = <<>>
    /\ calc' = [calc EXCEPT !.returned = << pack(calc.args) >>]
    /\ UNCHANGED <<daily, script, data_json, links_json, users_json, env, fsm, tasks, update, out, hist>>

\* The button is pressed: the filter of the token's class unpacks the string
\* the button carried.
Unpack ==
    /\ calc.fn = "pack" /\ calc.returned # <<>> /\ calc.returned[1] # <<>>
    /\ calc' = [fn |-> "unpack",
                args |-> [token |-> calc.args, callback_data |-> calc.returned[1][1]],
                returned |-> << unpack(calc.args.prefix, calc.returned[1][1]) >>]
    /\ UNCHANGED <<daily, script, data_json, links_json, users_json, env, fsm, tasks, update, out, hist>>

InitToken ==
    /\ InitBot({MissingDoc}, {MissingDoc}, {CHOOSE e \in Envs : e.TELEGRAPH_ENABLED},
               {MissingFile})
    /\ script = NoScript
    /\ calc \in {[fn |-> "pack", args |-> t, returned |-> <<>>] : t \in Tokens}
NextToken == Pack \/ Unpack
SpecToken == InitToken /\ [][NextToken]_vars

\* ------------------------------ every handler, on one small catalog

\* A press of the notification button is taken and handled: one
\* toggle_notify_handler at a time, its write and its render succeeding.
ToggleNotify ==
    \/ \E u \in Users : ToggleLoad(1, u)
    \/ ToggleSave(1, "ok")
    \/ ToggleRender(1, TRUE)

InitMode ==
    InitWith({JsonFile(1)}, {JsonFile(1)},
             {CHOOSE e \in Envs : e.TELEGRAPH_ENABLED /\ e.TELEGRAPH_AVAILABLE
                                      /\ e.create_account_ok},
             {MissingFile})
NextMode ==
    \/ TakeProbe \/ TakeOther
    \/ OpenCollections \/ OpenComics \/ BackToCollections \/ BackToComics
    \/ OpenChapters \/ ReadChapter \/ PaginateComics
    \/ Start \/ BackToMainMenu \/ RandomComic \/ StartSearch
    \/ ProcessSearchQuery \/ UnhandledMessage \/ Finish
    \/ ToggleNotify
SpecMode == InitMode /\ [][NextMode]_vars

\* ------------------------------------------------ restructure_links.py

\* load_json of restructure_links.py: None (the empty option) for a missing
\* or unparsable file.
load_json(file) ==
    IF file.kind \in {"missing", "corrupt"} THEN <<>> ELSE <<file.val>>

\* `not loaded`: None, or an empty object.
Falsy(loaded) == loaded = <<>> \/ loaded[1] = <<>>

\* The collections the loop does not skip: those with a 'comics' entry, in
\* the order of data.json.
WithComics(data) == SelectSeq(data, LAMBDA e : Has(e.v, "comics"))

\* new_links as the two loops build it: one object per collection, holding
\* the entries of old_links whose key is a comic key of that collection.
\* old_links.pop(comic_key) takes the entry away, so that a key listed in
\* two collections goes to the first of them.
new_links(data, old_links) ==
    LET colls == WithComics(data)
        comics(j) == Get(colls[j].v, "comics", <<>>)
        moved(j) ==
            SelectSeq(comics(j),
                      LAMBDA e : /\ Has(old_links, e.k)
                                 /\ ~\E i \in 1..(j - 1) : Has(comics(i), e.k))
    IN  List([j \in 1..Len(colls) |->
            KV(colls[j].k,
               List([n \in 1..Len(moved(j)) |->
                       KV(moved(j)[n].k, Get(old_links, moved(j)[n].k, <<>>))]))])

\* save_json: the file afterwards; the exception of a failed write is caught
\* and printed.
save_json(file, value, save) ==
    CASE save = "ok" -> JsonFile(value)
      [] save = "truncated" -> CorruptFile
      [] OTHER -> file

\* One run of restructure_links().
restructure_links ==
    /\ script.runs < MaxRuns
    /\ LET data == ParsedData(load_json(data_json))
           old_links == load_json(script.links_json)
           ran == [script EXCEPT !.runs = @ + 1,
                                 !.flat = IF script.runs = 0 THEN script.links_json ELSE @]
       IN  IF Falsy(data) \/ Falsy(old_links)
           THEN script' = ran
           ELSE \E save_backup, save_links \in {"ok", "unchanged", "truncated"} :
                   script' =
                       [ran EXCEPT
                           !.links_backup_json = save_json(@, old_links[1], save_backup),
                           !.links_json =
                               save_json(@, new_links(data[1], old_links[1]), save_links),
                           !.save_failed = @ \/ save_backup # "ok" \/ save_links # "ok"]
    /\ UNCHANGED <<calc, daily, data_json, links_json, users_json, env, fsm, tasks,
                   update, out, hist>>

\* The chapter link lists the flat links.json holds for a comic.
LinksOfComic(n) == << KV(c1, <<"u" \o n, "v" \o n>>), KV(c2, <<"w" \o n>>) >>

\* links.json before the first run: missing, unparsable, empty or flat
\* (comic key -> chapters), some of its keys not being listed in data.json.
FlatLinksFiles ==
    {MissingFile, CorruptFile, JsonFile(<<>>),
     JsonFile(<< KV(<<"b">>, LinksOfComic("1")) >>),
     JsonFile(<< KV(<<"z">>, LinksOfComic("1")) >>),
     JsonFile(<< KV(<<"b">>, LinksOfComic("1")), KV(<<"k">>, LinksOfComic("2")) >>),
     JsonFile(<< KV(<<"k">>, LinksOfComic("1")), KV(<<"z">>, LinksOfComic("2")) >>),
     JsonFile(<< KV(placeholder, LinksOfComic("1")), KV(<<"a">>, <<>>) >>),
     JsonFile(<< KV(<<"a">>, LinksOfComic("1")), KV(<<"b">>, LinksOfComic("2")),
                 KV(<<"k">>, LinksOfComic("3")) >>)}

InitRestructure ==
    /\ InitBot({MissingDoc, JsonFile(1), JsonFile(Len(DataDocs) - 1), JsonFile(Len(DataDocs))},
               {MissingDoc}, {CHOOSE e \in Envs : e.TELEGRAPH_ENABLED}, {MissingFile})
    /\ calc = NoCalc
    /\ script \in {[NoScript EXCEPT !.links_json = f] : f \in FlatLinksFiles}
NextRestructure == restructure_links
SpecRestructure == InitRestructure /\ [][NextRestructure]_vars

\* ------------------------------------------------------- everything

Next ==
    \/ NextRead \/ NextPage \/ NextSearch \/ NextNav \/ NextProbe \/ NextToggle
    \/ NextDaily \/ NextSort \/ NextToken \/ NextWalk \/ NextMode
    \/ NextRestructure
Spec == Init /\ [][Next]_vars

\* ==================================================================
\* Properties of the read handler (SpecRead)
\* ==================================================================

\* The record in `out` is that of a read request.
ReadDone == out.handler = "read_chapter_handler"

\* The chapters of the comic the read token addresses, in stored order.
ReadChapters == get_chapters_data(out.input.collection_key, out.input.comic_key)

\* The links.json entry of the chapter the read request resolved.
ReadLinks ==
    get_links_list(out.input.collection_key, out.input.comic_key, out.chapter_key[1])

\* The messages of the read request that are on the user's screen: those of
\* the edits the transport made and those sent.
ReadShown ==
    [j \in 1..Len(SelectSeq(out.edits, LAMBDA e : e.ok)) |->
        SelectSeq(out.edits, LAMBDA e : e.ok)[j].message] \o out.sent

SeqExists(lst, P(_)) == \E j \in 1..Len(lst) : P(lst[j])

\* C4: a read token whose page is outside [1, number of chapters] gets the
\* invalid-chapter alert and nothing else: no edit, no message, links.json is
\* not consulted, create_page is not called, nothing is raised.
C4_OutOfRangeReadOnlyAlerts ==
    (ReadDone /\ (out.input.page < 1 \/ out.input.page > Len(ReadChapters)))
        => /\ out.alerts = << "invalid_chapter" >>
           /\ out.edits = <<>>
           /\ out.sent = <<>>
           /\ ~out.links_loaded
           /\ out.create_page = 0
           /\ ~out.raised

\* A page of 0 or less for a comic that has linked chapters, Telegraph ready:
\* the request Python's negative indexing would resolve were it not rejected.
C4_Witness ==
    /\ ReadDone
    /\ out.input.page < 1
    /\ ReadChapters # <<>>
    /\ get_links_list(out.input.collection_key, out.input.comic_key,
                      SortedNatural(Keys(ReadChapters))[Len(ReadChapters)]) # <<>>
    /\ telegraph
    /\ out.alerts = << "invalid_chapter" >>

\* The chapters of a comic in a catalog document.
ChaptersIn(doc, collection_key, comic_key) ==
    Get(Get(Get(Get(doc, collection_key, <<>>), "comics", <<>>), comic_key, <<>>),
        "chapters", <<>>)

\* C5: a read token with page = 1 resolves to one and the same chapter key
\* whatever the order data.json stores the comic's chapters in.
C5_FirstPageSameKeyInEveryOrder ==
    (ReadDone /\ out.input.page = 1 /\ out.chapter_key # <<>>)
        => \A d \in 1..Len(DataDocs) :
              LET other == ChaptersIn(DataDocs[d], out.input.collection_key,
                                      out.input.comic_key)
              IN  KeySet(other) = KeySet(ReadChapters)
                      => out.chapter_key = << SortedNatural(Keys(other))[1] >>

\* The except branch ran because create_page raised (not because the edit
\* showing a created page was refused).
PublisherFailed ==
    /\ ReadDone
    /\ out.create_page > 0
    /\ SeqExists(out.edits, LAMBDA e : e.message.text = <<"telegraph_failed">>)
    /\ ~SeqExists(out.edits, LAMBDA e : e.message.text = <<"chapter_ready">>)

\* C6: when create_page fails for a chapter with links, the user receives
\* the links in order as text, and a message on the screen carries the
\* "back to chapters" button.
C6_FallbackHasLinksAndBack ==
    PublisherFailed
        => /\ SeqExists(out.sent, LAMBDA m : m.links = ReadLinks)
           /\ SeqExists(ReadShown, LAMBDA m :
                 SeqExists(m.markup, LAMBDA b :
                    b.callback_data = ComicCallback(out.input.collection_key,
                                                    out.input.comic_key, "open", 1)))

\* C7: a read request calls create_page at most once, and not at all when
\* main made no Telegraph instance.
C7_CreatePageAtMostOnce ==
    ReadDone => /\ out.create_page <= 1
                /\ ~telegraph => out.create_page = 0

\* create_page was called, it raised, and the fallback followed.
C7_Witness == PublisherFailed /\ out.create_page = 1 /\ out.sent # <<>>

\* C8: a read request that resolves a chapter whose links.json entry is
\* absent or empty gets the no-links alert and nothing else: create_page is
\* not called, no text is sent or edited, nothing is raised.
C8_NoLinksOnlyAlerts ==
    (ReadDone /\ out.chapter_key # <<>> /\ ReadLinks = <<>>)
        => /\ out.alerts = << "no_links" >>
           /\ out.create_page = 0
           /\ out.sent = <<>>
           /\ out.edits = <<>>
           /\ ~out.raised

\* The chapter c2, whose entry in links.json is the empty list, Telegraph ready.
C8_Witness ==
    /\ ReadDone
    /\ out.chapter_key = << c2 >>
    /\ load_json_async(links_json) # <<>>
    /\ telegraph
    /\ out.alerts = << "no_links" >>

PageDone == out.handler = "paginate_comics_handler"

\* total_pages of the list a page token addresses: the collection's comics
\* for the placeholder key, else the comic's chapters.
PageTotal ==
    IF out.input.comic_key = placeholder
    THEN CeilDiv(Len(get_comics_data(out.input.collection_key)), ITEMS_PER_PAGE_comics)
    ELSE CeilDiv(Len(get_chapters_data(out.input.collection_key, out.input.comic_key)),
                 ITEMS_PER_PAGE_chapters)

\* C10: a page token whose page is outside [1, total_pages] puts no comic
\* and no chapter of the catalog on the user's screen.
C10_OutOfRangePageShowsNoItems ==
    (PageDone /\ (out.input.page < 1 \/ out.input.page > PageTotal))
        => ~SeqExists(out.edits, LAMBDA e :
               e.ok /\ SeqExists(e.message.markup,
                                 LAMBDA b : b.text[1] \in {"comic", "chapter"}))

\* The ordered key list a page token pages through, and its page size.
PageOrdered ==
    IF out.input.comic_key = placeholder
    THEN SortedComicKeys(get_comics_data(out.input.collection_key))
    ELSE SortedNatural(Keys(get_chapters_data(out.input.collection_key,
                                              out.input.comic_key)))

PageSize ==
    IF out.input.comic_key = placeholder
    THEN ITEMS_PER_PAGE_comics ELSE ITEMS_PER_PAGE_chapters

\* The keyboard the addressed list has at page p.
PageMarkup(p) ==
    IF out.input.comic_key = placeholder
    THEN get_comics_markup(out.input.collection_key, p)
    ELSE get_chapter_buttons_markup(out.input.collection_key, out.input.comic_key, p)

ItemButtons(markup) ==
    SelectSeq(markup, LAMBDA b : b.text[1] \in {"comic", "chapter"})

\* The key a comic or chapter button stands for: the comic key of its open
\* token, or the chapter that its read token's ordinal and its text name
\* (<<"?">> when the two disagree).
ShownKey(b) ==
    IF b.text[1] = "comic" THEN b.callback_data.comic_key
    ELSE LET key == Index(PageOrdered, b.callback_data.page - 1)
             chapters == get_chapters_data(out.input.collection_key, out.input.comic_key)
         IN  IF key # <<>> /\ b.callback_data.page >= 1
                /\ b.text[2] = DisplayText(Get(chapters, key[1], <<>>))
             THEN key[1] ELSE <<"?">>

ShownKeys(markup) ==
    [j \in 1..Len(ItemButtons(markup)) |-> ShownKey(ItemButtons(markup)[j])]

RECURSIVE ShownUpTo(_)
ShownUpTo(p) == IF p <= 0 THEN <<>> ELSE ShownUpTo(p - 1) \o ShownKeys(PageMarkup(p))

\* C11: for a page p in [1, total_pages] the comic list (10 per page) and
\* the chapter list (20 per page) show exactly the keys at the zero-based
\* places [(p-1)*size, p*size) of the ordered list, cut at its end;
\* total_pages is the least number of pages that holds the list; the pages
\* 1..total_pages one after the other give the ordered list.
C11_PageShowsItsWindow ==
    (PageDone /\ out.input.page >= 1 /\ out.input.page <= PageTotal)
        => /\ PageTotal * PageSize >= Len(PageOrdered)
           /\ (PageTotal - 1) * PageSize < Len(PageOrdered)
           /\ ShownKeys(out.edits[1].message.markup)
                 = SubSeq(PageOrdered, (out.input.page - 1) * PageSize + 1,
                          Min(out.input.page * PageSize, Len(PageOrdered)))
           /\ ShownUpTo(PageTotal) = PageOrdered

\* The second, partly filled page of a list of two pages is on the screen.
C11_Witness ==
    /\ PageDone
    /\ out.input.page = 2
    /\ PageTotal = 2
    /\ out.edits[1].ok
    /\ Len(ItemButtons(out.edits[1].message.markup)) = 1

\* The « and » buttons on page p of the chapter list of comic k of the
\* collection the handled token addresses.
ChapterNavButtons(k, p) ==
    SelectSeq(get_chapter_buttons_markup(out.input.collection_key, k, p),
              LAMBDA b : b.text[1] \in {"prev", "next"})

\* C14: a page token with the key "placeholder" renders the collection's
\* comic list at that page; and when the handled page token is the one of a
\* « or » button on page p of the chapter list of a comic of the catalog,
\* what is rendered is that comic's chapter list at page p-1 or p+1.
C14_PageTokenDispatch ==
    PageDone =>
        /\ out.input.comic_key = placeholder
              => out.edits[1].message.markup
                    = get_comics_markup(out.input.collection_key, out.input.page)
        /\ \A k \in KeySet(get_comics_data(out.input.collection_key)) :
              \A p \in 1..CeilDiv(Len(get_chapters_data(out.input.collection_key, k)),
                                  ITEMS_PER_PAGE_chapters) :
                 \A j \in 1..Len(ChapterNavButtons(k, p)) :
                    LET b == ChapterNavButtons(k, p)[j]
                    IN  b.callback_data = out.input
                          => /\ out.input.page = IF b.text[1] = "prev" THEN p - 1 ELSE p + 1
                             /\ out.edits[1].message.markup
                                   = get_chapter_buttons_markup(out.input.collection_key,
                                                                k, out.input.page)


\* ==================================================================

\* C3: a text message of a user who pressed search (FSM state
\* waiting_for_query) is handled by process_search_query, answered with
\* exactly one message, and leaves that user's state cleared whether the
\* query was empty, found something or found nothing; a text message of a
\* user whose state is not waiting_for_query is handled by nothing and
\* changes no state.
C3_QueryHandledOnceThenModeEnds ==
    [][(update.kind = "text" /\ update' = NoUpdate)
          => IF fsm[update.user] = "waiting_for_query"
             THEN /\ out'.handler = "process_search_query"
                  /\ out'.input = update.data
                  /\ Len(out'.sent) = 1
                  /\ fsm'[update.user] = "none"
             ELSE /\ out'.handler = "unhandled"
                  /\ out'.sent = <<>>
                  /\ fsm' = fsm]_vars

\* A query that found nothing has been answered, and the mode is over.
C3_Witness ==
    /\ out.handler = "process_search_query"
    /\ out.event = "text"
    /\ out.sent[1].text = <<"not_found">>
    /\ fsm[out.user] = "none"

\* ==================================================================
\* Properties of the subscriber toggle (SpecToggle)
\* ==================================================================

\* The calls of the busy period that just ended all succeeded in saving.
ToggleSettled == Quiescent /\ ~hist.save_failed

\* C1: when two overlapping toggle_notification_user calls of one user have
\* both completed, the user's membership in users.json is what it was
\* before them, and one call returned True (added), the other False (removed).
C1_SameUserTwoNetFlips ==
    \A u \in Users :
        (ToggleSettled /\ hist.calls[u] = 2 /\ CallsStarted(hist) = 2)
            => /\ (u \in Members(users_json)) = (u \in hist.base)
               /\ hist.added[u] = 1
               /\ hist.removed[u] = 1

\* C2: when overlapping toggle_notification_user calls of two different
\* users have both completed, users.json has each of the two flipped.
C2_TwoUsersBothFlipped ==
    \A a \in Users : \A b \in Users \ {a} :
        (ToggleSettled /\ hist.calls[a] = 1 /\ hist.calls[b] = 1
                       /\ CallsStarted(hist) = 2)
            => /\ (a \in Members(users_json)) # (a \in hist.base)
               /\ (b \in Members(users_json)) # (b \in hist.base)

\* ==================================================================
\* Properties of the navigation as a whole (SpecNav)
\* ==================================================================

\* The messages of the finished interaction that are on the user's screen.
Shown ==
    [j \in 1..Len(SelectSeq(out.edits, LAMBDA e : e.ok)) |->
        SelectSeq(out.edits, LAMBDA e : e.ok)[j].message] \o out.sent

\* The keyboard has the button with this text kind and this token.
HasButton(markup, kind, callback_data) ==
    SeqExists(markup, LAMBDA b : b.text[1] = kind /\ b.callback_data = callback_data)

\* A press of "to main menu" or "cancel" renders the root menu.
BacksToRoot(markup) ==
    \/ HasButton(markup, "to_main_menu", MenuCallback("back"))
    \/ HasButton(markup, "cancel", MenuCallback("back"))

\* "back to collections" renders the collections list, which leads to the root.
BacksToCollections(markup) ==
    SeqExists(markup, LAMBDA b :
        /\ b.text[1] = "back_to_collections"
        /\ b.callback_data = CollectionCallback(b.callback_data.collection_key, "back")
        /\ BacksToRoot(get_collections_markup))

\* "back to comics" renders the collection's comics.
BacksToComics(markup) ==
    SeqExists(markup, LAMBDA b :
        /\ b.text[1] = "back_to_comics"
        /\ b.callback_data.prefix = "comic" /\ b.callback_data.action = "back"
        /\ BacksToCollections(get_comics_markup(b.callback_data.collection_key, 1)))

\* "back to chapters" renders the comic's chapters.
BacksToChapters(markup) ==
    SeqExists(markup, LAMBDA b :
        /\ b.text[1] = "back_to_chapters"
        /\ b.callback_data.prefix = "comic" /\ b.callback_data.action = "open"
        /\ BacksToComics(get_chapter_buttons_markup(b.callback_data.collection_key,
                                                    b.callback_data.comic_key, 1)))

\* The message is the root menu, or back-type buttons lead from it there.
LeadsToRoot(message) ==
    \/ HasButton(message.markup, "collections", MenuCallback("collections"))
    \/ BacksToRoot(message.markup)
    \/ BacksToCollections(message.markup)
    \/ BacksToComics(message.markup)
    \/ BacksToChapters(message.markup)

\* C12: whatever an interaction put on the user's screen, the root menu can
\* be reached from it through back-type buttons: one of the messages it
\* left there is the root menu or carries a chain of back buttons to it.
C12_RootReachableFromEveryRender ==
    (out.handler \notin {"none", "unhandled"} /\ Shown # <<>>)
        => SeqExists(Shown, LeadsToRoot)

\* ==================================================================
\* Properties of repeated handlings (SpecProbe)
\* ==================================================================

\* What the publisher answered in a handling: nothing (not called), a URL,
\* an exception, or a response without URL.
PubOutcome(eff) ==
    IF eff.create_page = 0 THEN "none"
    ELSE IF SeqExists(eff.edits, LAMBDA e : e.message.text = <<"chapter_ready">>) THEN "url"
    ELSE IF SeqExists(eff.edits, LAMBDA e : e.message.text = <<"telegraph_failed">>)
    THEN "exception" ELSE "nourl"

\* What the transport and the publisher answered in a handling.
EnvResponses(eff) ==
    [edits |-> [j \in 1..Len(eff.edits) |-> eff.edits[j].ok], pub |-> PubOutcome(eff)]

ToggledAlone(u) ==
    /\ ToggleSettled
    /\ CallsStarted(hist) = 1
    /\ hist.calls[u] = 1
    /\ out.handler = "toggle_notify_handler"
    /\ out.user = u

\* The messages of the toggle interaction that carry the root menu.
ToggleMenus ==
    [j \in 1..Len(out.edits) |-> out.edits[j].message] \o out.sent

\* C15: a toggle_notify interaction of user u that ran alone and persisted
\* its list flips u's membership in users.json, leaves every other user's
\* membership as it was, returns the new membership, and the root menu it
\* renders carries the notification label of the new membership.
C15_ToggleAloneFlipsOnlyItsUser ==
    \A u \in Users :
        ToggledAlone(u)
            => /\ (u \in Members(users_json)) # (u \in hist.base)
               /\ \A v \in Users \ {u} : (v \in Members(users_json)) = (v \in hist.base)
               /\ out.alerts = << IF u \in Members(users_json)
                                  THEN "notify_on" ELSE "notify_off" >>
               /\ \A j \in 1..Len(ToggleMenus) :
                     HasButton(ToggleMenus[j].markup, "notify", MenuCallback("toggle_notify"))
                     /\ \A i \in 1..Len(ToggleMenus[j].markup) :
                           ToggleMenus[j].markup[i].text[1] = "notify"
                              => ToggleMenus[j].markup[i].text[2] = (u \in Members(users_json))

\* User 1 unsubscribed alone while another user stayed subscribed.
C15_Witness ==
    /\ ToggledAlone(1)
    /\ 1 \in hist.base
    /\ hist.base # {1}
    /\ 1 \notin Members(users_json)
    /\ out.edits[1].ok

NoDuplicates(lst) ==
    \A i \in 1..Len(lst) : \A j \in 1..Len(lst) : lst[i] = lst[j] => i = j

\* C16: users.json never lists a user twice, whatever toggle calls of
\* whichever users have run or are running, in whatever interleaving; nor
\* does any list a running call is about to write.
C16_NoDuplicateSubscribers ==
    /\ NoDuplicates(OrEmpty(load_json_async(users_json)))
    /\ \A t \in Tasks : NoDuplicates(tasks[t].users)

\* Two users subscribed through overlapping calls, and a third call is
\* between its load and its save.
C16_Witness ==
    /\ Len(OrEmpty(load_json_async(users_json))) = 2
    /\ hist.base = {}
    /\ CallsStarted(hist) = 3
    /\ \E t \in Tasks : tasks[t].pc = "save"

\* C17: when the write of users.json fails in a toggle interaction that ran
\* alone, the user is not told that notifications were switched on or off,
\* and the interaction still renders the root menu with the label of the
\* membership users.json actually holds.
C17_FailedWriteIsReported ==
    \A u \in Users :
        (/\ Quiescent /\ hist.save_failed
         /\ CallsStarted(hist) = 1 /\ hist.calls[u] = 1
         /\ out.handler = "toggle_notify_handler" /\ out.user = u)
            => /\ ~SeqExists(out.alerts, LAMBDA a : a \in {"notify_on", "notify_off"})
               /\ ToggleMenus # <<>>
               /\ \A j \in 1..Len(ToggleMenus) :
                     \A i \in 1..Len(ToggleMenus[j].markup) :
                        ToggleMenus[j].markup[i].text[1] = "notify"
                           => ToggleMenus[j].markup[i].text[2] = (u \in Members(users_json))

\* ==================================================================
\* Further properties of the search (SpecSearch)
\* ==================================================================

\* `out` is the record of a text handled as a search query.
QueryDone == out.handler = "process_search_query" /\ out.event = "text"

\* The query as searched for: lower-cased and trimmed.
TrimmedQuery == Strip(Lower(out.input))

\* q occurs in t as a run of consecutive characters.
IsSubstring(q, t) ==
    \E i \in 0..(Len(t) - Len(q)) : SubSeq(t, i + 1, i + Len(q)) = q

\* The (collection key, comic key, title) of every comic of data.json, the
\* title being the key where the comic has none.
CatalogPairs ==
    UNION {{<<get_all_data[i].k, Get(get_all_data[i].v, "comics", <<>>)[j].k,
              Get(Get(get_all_data[i].v, "comics", <<>>)[j].v, "title",
                  Get(get_all_data[i].v, "comics", <<>>)[j].k)>> :
               j \in 1..Len(Get(get_all_data[i].v, "comics", <<>>))} :
           i \in 1..Len(get_all_data)}

\* The comic buttons of the answer to the query.
ResultButtons == SelectSeq(out.sent[1].markup, LAMBDA b : b.text[1] = "comic")

\* C18: for a query that is not empty after trimming, the answer lists
\* exactly the comics of all collections whose lower-cased title (key, where
\* the title is missing) contains the lower-cased trimmed query, each once,
\* in ascending order of title; it is the not-found notice exactly when
\* there is none.
C18_SearchListsExactlyTheMatches ==
    (QueryDone /\ TrimmedQuery # <<>>)
        => LET matches == {c \in CatalogPairs : IsSubstring(TrimmedQuery, Lower(c[3]))}
           IN  /\ {<<ResultButtons[j].callback_data.collection_key,
                     ResultButtons[j].callback_data.comic_key,
                     ResultButtons[j].text[2]>> : j \in 1..Len(ResultButtons)} = matches
               /\ Len(ResultButtons) = Cardinality(matches)
               /\ \A j \in 1..(Len(ResultButtons) - 1) :
                     ~StrLess(ResultButtons[j + 1].text[2], ResultButtons[j].text[2])
               /\ \A j \in 1..Len(ResultButtons) :
                     ResultButtons[j].callback_data.action = "open"
               /\ out.sent[1].text = IF matches = {} THEN <<"not_found">>
                                     ELSE <<"found", Cardinality(matches)>>

\* A query typed with blanks and capitals around it found comics of two
\* collections, one of them by its key, one by a capital of its title.
C18_Witness ==
    /\ QueryDone
    /\ out.input = <<" ", "S", "A", " ">> \/ out.input = <<"a">>
    /\ Len(ResultButtons) = 3
    /\ ResultButtons[1].callback_data.collection_key
          # ResultButtons[3].callback_data.collection_key

\* C19: a text that is empty after trimming is answered with the no-query
\* notice and the way to the menu alone: the catalog is not scanned and no
\* comic is listed, whatever data.json holds.
C19_EmptyQueryIsNotSearched ==
    (QueryDone /\ TrimmedQuery = <<>>)
        => /\ out.sent = << Message(<<"no_query">>, <<>>,
                                    << Button(<<"to_main_menu">>, MenuCallback("back")) >>) >>
           /\ ~out.scanned
           /\ ResultButtons = <<>>
           /\ out.edits = <<>> /\ ~out.raised

\* A text of blanks only was answered while the catalog has comics.
C19_Witness ==
    /\ QueryDone
    /\ out.input = <<" ">>
    /\ get_all_comic_identifiers # <<>>
    /\ out.sent # <<>>

\* ==================================================================
\* Properties of the random pick (SpecSearch)
\* ==================================================================

\* `out` is the record of a press of the random button.
RandomDone == out.handler = "random_comic_handler"

\* The message showing the chapter list of the comic c = (collection key,
\* comic key, title).
RandomRender(c) ==
    Message(<<"random_comic", c[3],
              Len(Get(Get(get_comics_data(c[1]), c[2], <<>>), "chapters", <<>>))>>,
            <<>>, get_chapter_buttons_markup(c[1], c[2], 1))

\* The empty-catalog notice.
NoComicsNotice ==
    Message(<<"no_comics">>, <<>>, << Button(<<"to_main_menu">>, MenuCallback("back")) >>)

\* C20: the random pick draws from one list that holds every (collection,
\* comic) of the catalog exactly once. With an empty catalog the handler
\* puts up the empty-catalog notice and shows no comic; otherwise the
\* message it puts up is the chapter list of a comic of the catalog, and
\* when the press is taken every comic of the catalog is the outcome of one
\* of the draws the handler can make.
C20_RandomDrawsFromWholeCatalog ==
    /\ {get_all_comic_identifiers[j] : j \in 1..Len(get_all_comic_identifiers)}
          = CatalogPairs
    /\ Len(get_all_comic_identifiers) = Cardinality(CatalogPairs)
    /\ (RandomDone /\ CatalogPairs = {})
          => /\ Len(out.edits) = 1
             /\ out.edits[1].message = NoComicsNotice
             /\ out.sent = <<>>
    /\ (RandomDone /\ CatalogPairs # {})
          => /\ Len(out.edits) = 1
             /\ \E c \in CatalogPairs : out.edits[1].message = RandomRender(c)
             /\ out.sent = IF out.edits[1].ok THEN <<>> ELSE << out.edits[1].message >>
    /\ IsCallback("menu", "random")
          => \A c \in CatalogPairs :
                \E pick \in RandomPicks, edit_ok \in BOOLEAN :
                    random_comic_handler(update.user, pick, edit_ok).edits[1].message
                        = RandomRender(c)

\* The draw showed a comic of the second collection of a catalog of several
\* comics.
C20_Witness ==
    /\ RandomDone
    /\ Cardinality(CatalogPairs) >= 3
    /\ out.edits[1].message.text[1] = "random_comic"
    /\ \E c \in CatalogPairs :
          /\ c[1] = get_all_data[2].k
          /\ out.edits[1].message = RandomRender(c)

\* ==================================================================
\* Properties of the daily broadcast (SpecDailyFair)
\* ==================================================================

\* The sends of the run so far went, in order, to the first users of the
\* list the run loaded, one each.
SentInListOrder ==
    /\ Len(daily.attempts) <= Len(daily.users)
    /\ \A j \in 1..Len(daily.attempts) : daily.attempts[j].chat_id = daily.users[j]

\* C21: in a run of the daily broadcast over a list of n users the sends are
\* attempted one per list entry in list order, whatever the outcome of the
\* sends before; the run is over exactly when n sends have been attempted,
\* and every run that started gets there.
C21_OneSendPerSubscriberThenDone ==
    /\ [](/\ SentInListOrder
          /\ daily.pc = "sending" => Len(daily.attempts) < Len(daily.users)
          /\ daily.pc = "done" => Len(daily.attempts) = Len(daily.users))
    /\ (daily.pc = "sending") ~> (daily.pc = "done")

\* A run over three list entries ended after its first send had failed and
\* while the file lists other users than the run loaded.
C21_Witness ==
    /\ daily.pc = "done"
    /\ Len(daily.users) = 3
    /\ ~daily.attempts[1].ok
    /\ Len(daily.attempts) = 3
    /\ OrEmpty(load_json_async(users_json)) # daily.users

\* ==================================================================
\* Further properties of the read handler (SpecRead)
\* ==================================================================

\* The read request fell back to the raw links: the chapter has links and
\* no message with the published page was put up.
FellBack ==
    /\ ReadDone
    /\ out.chapter_key # <<>>
    /\ ReadLinks # <<>>
    /\ ~SeqExists(ReadShown, LAMBDA m : m.text = <<"chapter_ready">>)

\* The URIs the messages list, message after message.
RECURSIVE LinksOf(_)
LinksOf(messages) ==
    IF messages = <<>> THEN <<>>
    ELSE Head(messages).links \o LinksOf(Tail(messages))

\* C22: a read request that falls back to the raw links sends them in
\* messages none of which is longer than the transport takes, the messages
\* in order list all the chapter's URIs in their order, and the "back to
\* chapters" button is on the user's screen.
C22_FallbackIsChunked ==
    FellBack
        => /\ \A j \in 1..Len(out.sent) :
                 Len(links_chunk(out.sent[j].links)) <= MaxText
           /\ LinksOf(out.sent) = ReadLinks
           /\ SeqExists(ReadShown, LAMBDA m :
                 SeqExists(m.markup, LAMBDA b :
                    b.callback_data = ComicCallback(out.input.collection_key,
                                                    out.input.comic_key, "open", 1)))

\* ==================================================================
\* Further properties of the catalog navigation (SpecNav)
\* ==================================================================

\* `out` is the record of a collection-open, item-open or page token whose
\* collection key, or whose item key, is not in data.json.
AbsentKey ==
    /\ out.handler \in {"open_comics_handler", "open_chapters_handler",
                        "paginate_comics_handler"}
    /\ \/ ~Has(get_all_data, out.input.collection_key)
       \/ /\ out.input.prefix = "comic"
          /\ out.handler = "open_chapters_handler" \/ out.input.comic_key # placeholder
          /\ ~Has(get_comics_data(out.input.collection_key), out.input.comic_key)

\* The message is a listing: the header of a collection over its comics, the
\* header of a comic over its chapters, or a keyboard put under the text
\* that was there. An existing collection and an existing comic are shown
\* so, the empty ones included.
IsListing(message) == message.text[1] \in {"collection", "comic_chapters", "unchanged"}

\* C23: a collection-open, item-open or page token whose collection or item
\* is not in the catalog loaded for it puts up a notice that is no listing,
\* with a way back to the menu, and raises nothing.
C23_AbsentKeyGetsNotice ==
    (AbsentKey /\ \A j \in 1..Len(out.edits) : out.edits[j].ok)
        => /\ ~out.raised
           /\ SeqExists(Shown, LAMBDA m : ~IsListing(m) /\ LeadsToRoot(m))

\* ==================================================================
\* Properties of the natural sort (SpecSort)
\* ==================================================================

\* The maximal runs of digits and of other characters s is made of, in
\* order.
RECURSIVE RunsOf(_)
RunsOf(s) ==
    IF s = <<>> THEN <<>>
    ELSE LET n == CHOOSE n \in 1..Len(s) :
                     /\ \A j \in 1..n : IsDigit(s[j]) = IsDigit(s[1])
                     /\ (n = Len(s) \/ IsDigit(s[n + 1]) # IsDigit(s[1]))
         IN  << SubSeq(s, 1, n) >> \o RunsOf(SubSeq(s, n + 1, Len(s)))

\* The number a run of digits writes, leading zeros apart.
RECURSIVE NumberOf(_)
NumberOf(run) ==
    IF run = <<>> THEN 0
    ELSE DigitVal(Head(run)) * (10 ^ (Len(run) - 1)) + NumberOf(Tail(run))

\* a and b are made of the same runs of non-digits, capitals apart, with
\* runs of digits at the same places.
SameTextRuns(a, b) ==
    /\ Len(RunsOf(a)) = Len(RunsOf(b))
    /\ \A j \in 1..Len(RunsOf(a)) :
          /\ IsDigit(RunsOf(a)[j][1]) = IsDigit(RunsOf(b)[j][1])
          /\ ~IsDigit(RunsOf(a)[j][1]) => Lower(RunsOf(a)[j]) = Lower(RunsOf(b)[j])

\* The first run of digits whose number differs between a and b is the
\* smaller in a.
FirstNumberSmaller(a, b) ==
    \E j \in 1..Len(RunsOf(a)) :
        /\ IsDigit(RunsOf(a)[j][1])
        /\ NumberOf(RunsOf(a)[j]) < NumberOf(RunsOf(b)[j])
        /\ \A i \in 1..(j - 1) :
              IsDigit(RunsOf(a)[i][1]) => NumberOf(RunsOf(a)[i]) = NumberOf(RunsOf(b)[i])

\* The list a call of sorted(..., key=natural_sort_key) returned.
Sorted == calc.returned[1]

\* C24: sorted(keys, key=natural_sort_key) rearranges the keys so that of
\* two keys made of the same non-digit runs the one whose first differing
\* run of digits is the smaller number comes first; chapter_2, chapter_10,
\* chapter_1 come out as chapter_1, chapter_2, chapter_10.
C24_NaturalOrder ==
    (calc.fn = "sorted" /\ calc.returned # <<>>)
        => /\ Len(Sorted) = Len(calc.args)
           /\ \A k \in SortKeys :
                 Cardinality({j \in 1..Len(Sorted) : Sorted[j] = k})
                    = Cardinality({j \in 1..Len(calc.args) : calc.args[j] = k})
           /\ \A i \in 1..Len(Sorted) : \A j \in 1..Len(Sorted) :
                 (SameTextRuns(Sorted[i], Sorted[j])
                    /\ FirstNumberSmaller(Sorted[i], Sorted[j])) => i < j
           /\ calc.args = <<chapter_2, chapter_10, chapter_1>>
                 => Sorted = <<chapter_1, chapter_2, chapter_10>>

\* Keys with two runs of digits given in descending order came out
\* ascending, the first run deciding before the second.
C24_Witness ==
    /\ calc.fn = "sorted"
    /\ calc.args = << <<"c", "2", "_", "1">>, <<"c", "1", "_", "1", "0">>,
                      <<"c", "1", "_", "2">> >>
    /\ calc.returned = << << <<"c", "1", "_", "2">>, <<"c", "1", "_", "1", "0">>,
                             <<"c", "2", "_", "1">> >> >>

\* ==================================================================
\* Properties of the tokens on the wire (SpecToken)
\* ==================================================================

\* C25: every token that can be constructed is packed into a string, and
\* unpacking that string gives the token back, whatever its keys hold, the
\* separator included.
C25_TokenRoundTrip ==
    /\ (calc.fn = "pack" /\ calc.returned # <<>>) => calc.returned[1] # <<>>
    /\ calc.fn = "unpack" => calc.returned = << << calc.args.token >> >>

\* ==================================================================
\* Further properties of the random pick (SpecSearch)
\* ==================================================================

\* The collections of the catalog do not all hold the same number of comics.
UnequalCollections ==
    \E i \in 1..Len(get_all_data) : \E j \in 1..Len(get_all_data) :
        Len(Get(get_all_data[i].v, "comics", <<>>))
            # Len(Get(get_all_data[j].v, "comics", <<>>))

\* The draws, among those random.choice makes with equal chance, that end
\* on the comic c = (collection key, comic key, title).
DrawsOf(c) == {pick \in RandomPicks : get_all_comic_identifiers[pick] = c}

\* C26: when a press of the random button is handled on a catalog whose
\* collections differ in size, every comic is the outcome of the same share
\* of the equally likely draws, one in as many as the catalog has comics,
\* whatever the size of its collection.
C26_EveryComicSameShare ==
    (IsCallback("menu", "random") /\ UnequalCollections /\ CatalogPairs # {})
        => \A c \in CatalogPairs :
              /\ Cardinality(DrawsOf(c)) = 1
              /\ Cardinality(DrawsOf(c)) * Cardinality(CatalogPairs)
                    = Cardinality(RandomPicks)

\* The draw ended on the only comic of a collection while another
\* collection holds two.
C26_Witness ==
    /\ RandomDone
    /\ UnequalCollections
    /\ Cardinality(CatalogPairs) = 3
    /\ \E c \in CatalogPairs :
          /\ Cardinality({d \in CatalogPairs : d[1] = c[1]}) = 1
          /\ out.edits[1].message = RandomRender(c)

\* ==================================================================
\* Read tokens of the chapter buttons (SpecRead)
\* ==================================================================

\* The chapter buttons of page p of the chapter list of the comic the read
\* token addresses.
ChapterButtons(p) ==
    SelectSeq(get_chapter_buttons_markup(out.input.collection_key,
                                         out.input.comic_key, p),
              LAMBDA b : b.text[1] = "chapter")

\* The pages of that chapter list.
ChapterPages == 1..CeilDiv(Len(ReadChapters), ITEMS_PER_PAGE_chapters)

\* C27: on one snapshot of the catalog, the read token of the i-th chapter
\* button of page p of a comic's chapter list carries the ordinal
\* (p-1)*20 + i, and the read handler resolves it to the chapter whose label
\* that button shows; every chapter of the comic has such a button.
C27_ReadTokenRoundTrip ==
    ReadDone
        => /\ \A p \in ChapterPages : \A i \in 1..Len(ChapterButtons(p)) :
                 /\ ChapterButtons(p)[i].callback_data
                       = ComicCallback(out.input.collection_key, out.input.comic_key,
                                       "read", (p - 1) * ITEMS_PER_PAGE_chapters + i)
                 /\ ChapterButtons(p)[i].callback_data = out.input
                       => /\ out.chapter_key # <<>>
                          /\ ChapterButtons(p)[i].text
                                = <<"chapter",
                                    DisplayText(Get(ReadChapters, out.chapter_key[1], <<>>))>>
           /\ out.input.page \in 1..Len(ReadChapters)
                 => \E p \in ChapterPages : \E i \in 1..Len(ChapterButtons(p)) :
                       ChapterButtons(p)[i].callback_data = out.input

\* The first button of the second page of a chapter list was pressed and
\* its chapter resolved.
C27_Witness ==
    /\ ReadDone
    /\ out.input.page = ITEMS_PER_PAGE_chapters + 1
    /\ Len(ReadChapters) > ITEMS_PER_PAGE_chapters
    /\ out.chapter_key # <<>>
    /\ ChapterButtons(2)[1].callback_data = out.input

\* ==================================================================
\* Properties of a walk through the menus (SpecWalk)
\* ==================================================================

\* total_pages of the list the handler of a page token renders: the
\* collection's comics for the marker key, else the comic's chapters.
TokenPageTotal(token) ==
    IF token.comic_key = placeholder
    THEN CeilDiv(Len(get_comics_data(token.collection_key)), ITEMS_PER_PAGE_comics)
    ELSE CeilDiv(Len(get_chapters_data(token.collection_key, token.comic_key)),
                 ITEMS_PER_PAGE_chapters)

\* C28: on a walk from /start through buttons the bot put up, on one
\* catalog, every page token that comes to be handled carries a page the
\* list it is rendered from has, and every read token the ordinal of a
\* chapter of its comic.
C28_RenderedTokensInRange ==
    /\ IsCallback("comic", "page")
          => update.data.page \in 1..TokenPageTotal(update.data)
    /\ IsCallback("comic", "read")
          => update.data.page
                \in 1..Len(get_chapters_data(update.data.collection_key,
                                             update.data.comic_key))


\* ==================================================================
\* The awaiting-search flag (SpecMode)
\* ==================================================================

\* The step is the run of a handler: of the one the taken update is
\* dispatched to, or of toggle_notify_handler coming to its end.
HandlerRan ==
    /\ out' # NoEffects
    /\ \/ update # NoUpdate /\ update' = NoUpdate
       \/ \E t \in Tasks : tasks[t].pc = "menu" /\ tasks'[t].pc = "idle"

\* The handlers that end the search mode of their user.
ClearingHandlers ==
    {"start_handler", "back_to_main_menu_handler", "random_comic_handler"}

\* C29: the awaiting-search flag of a user is set by the search action of
\* the menu and by nothing else; it is cleared by /start, by the menu's back
\* action, by the random action and by the handling of one text message of
\* that user; every other handler (collections, toggle_notify, collection
\* open/back, item open/back/page/read) and every other step leaves the
\* flags of all users as they were, so the next text of a user who pressed
\* search and then other buttons is handled as a query.
C29_FlagSetBySearchOnly ==
    [][/\ IF ~HandlerRan THEN fsm' = fsm
          ELSE IF out'.handler = "start_search_handler"
          THEN fsm' = [fsm EXCEPT ![out'.user] = "waiting_for_query"]
          ELSE IF \/ out'.handler \in ClearingHandlers
                  \/ out'.handler = "process_search_query" /\ out'.event = "text"
          THEN fsm' = [fsm EXCEPT ![out'.user] = "none"]
          ELSE fsm' = fsm
       /\ (update.kind = "text" /\ update' = NoUpdate
              /\ fsm[update.user] = "waiting_for_query")
             => out'.handler = "process_search_query"]_vars

\* A user who pressed search has since pressed the notification button or a
\* read button of an older message, and is still awaiting a query, while the
\* other user is not.
C29_Witness ==
    /\ out.handler \in {"toggle_notify_handler", "read_chapter_handler"}
    /\ fsm[out.user] = "waiting_for_query"
    /\ \E u \in Users : fsm[u] = "none"


\* ==================================================================
\* Properties of restructure_links.py (SpecRestructure)
\* ==================================================================

\* The comic keys data.json lists, in any of its collections.
ListedComics ==
    UNION {KeySet(Get(get_all_data[j].v, "comics", <<>>)) : j \in 1..Len(get_all_data)}

\* The file holds the chapter link lists `links` under the comic key, at the
\* top (flat) or inside one of its collections (restructured).
Holds(file, comic_key, links) ==
    /\ file.kind = "json"
    /\ \/ \E j \in 1..Len(file.val) :
             file.val[j].k = comic_key /\ file.val[j].v = links
       \/ \E j \in 1..Len(file.val) : \E n \in 1..Len(file.val[j].v) :
             /\ file.val[j].v[n].k = comic_key
             /\ file.val[j].v[n].v = links

\* Every entry of the flat links.json under a listed comic key is still in
\* links.json or in links_backup.json.
NoLinkLost(s) ==
    s.flat.kind = "json"
       => \A j \in 1..Len(s.flat.val) :
             s.flat.val[j].k \in ListedComics
                => \/ Holds(s.links_json, s.flat.val[j].k, s.flat.val[j].v)
                   \/ Holds(s.links_backup_json, s.flat.val[j].k, s.flat.val[j].v)

\* C30: as long as every write of the script goes through, a run on a
\* links.json an earlier run has written leaves links.json as it was, and
\* after every run each chapter link list of the flat links.json whose comic
\* key is listed in data.json is in links.json or in links_backup.json.
C30_RerunKeepsLinks ==
    [][(script'.runs = script.runs + 1 /\ ~script'.save_failed)
          => /\ script.runs >= 1 => script'.links_json = script.links_json
             /\ NoLinkLost(script')]_vars

====
